---- MODULE Spec2Model ----
(***************************************************************************)
(* Nagbot: schedule tags, lifecycle policy and the notify/execute runs.    *)
(*                                                                         *)
(* The repository holds several revisions of the same modules side by      *)
(* side.  Each is modelled under its own name:                             *)
(*   parsing.py                 parse_date_tag, ParsedDate_str, ...        *)
(*   sqaws.py                   generic_is_*, sqaws_*                      *)
(*   new_sqaws.py               new_sqaws_*                                *)
(*   nagbot.py (1.7.0)          is_stoppable, ..., Nagbot_notify/_execute  *)
(*   instance.py / snapshot.py  Instance_*, Snapshot_*                     *)
(*   new_nagbot.py (1.8.0)      notify, execute                            *)
(*                                                                         *)
(* A calendar date 'YYYY-MM-DD' is modelled by its day number; comparing   *)
(* two such strings in Python orders them as the day numbers are ordered.  *)
(* A tag value is a sequence of tokens (see Tok).                          *)
(***************************************************************************)
EXTENDS Integers, Sequences, FiniteSets, TLC

\* ------------------------------------------------------------------ bounds
\* Calendar days are 0..MaxDay; day 0 is a Wednesday.
MaxDay == 3

\* Resources of the account are numbered 1..NumResources.
NumResources == 2

Days == 0..MaxDay

\* One day of every weekday, for the predicates that read the clock.
Week == 0..6

\* ------------------------------------------------------------------ state
VARIABLES
    clock,        \* the day on which the process runs (datetime.today())
    resource,     \* policy evaluation: the resource the predicates are applied to
    today_date,   \* policy evaluation: the today_date argument
    is_weekend,   \* policy evaluation: the is_weekend argument
    result,       \* policy evaluation: what the predicates returned
    rev,          \* which orchestrator is deployed: "nagbot" (1.7.0) or "new_nagbot" (1.8.0)
    ec2,          \* the provider: resource id -> state and tags
    run,          \* the run of notify or execute made last on this day
    notify_warned,\* history: id -> days on which notify wrote a warning dated that day
                  \*          into the resource's terminate-after tag
    pristine,     \* history: ids whose tags carried no warning marker at the start
    process,      \* the command line main was given and the status it exited with
    strftime_pads_year
                  \* the platform: whether strftime('%Y') writes a year before 1000
                  \* with leading zeros (glibc does not)

vars == <<clock, resource, today_date, is_weekend, result,
          rev, ec2, run, notify_warned, pristine, process, strftime_pads_year>>

platform_vars == <<strftime_pads_year>>

policy_vars == <<resource, today_date, is_weekend, result>>

run_vars == <<rev, ec2, run, notify_warned, pristine, process>>

\* No main has exited yet.
NoProcess == [done |-> FALSE]

\* Python's None for an Optional[str] date.
None == -1

\* Date texts of a year before 1000, beside the day numbers 0, 1, ... of the
\* years from 1000 on: '0999-01-01', a calendar date written with four
\* digits, and '999-01-01', the same date as strftime('%Y-%m-%d') writes it
\* where '%Y' is not padded.
Year999 == -2

Year999Unpadded == -3

\* ------------------------------------------------------------------ tokens
\* A tag value is a sequence of tokens.  k is one of
\*   "date"     the text YYYY-MM-DD of calendar day d
\*   "baddate"  text shaped \d{4}-\d{2}-\d{2} that is no calendar date
\*   "onw"      the text 'On Weekends' exactly as __str__ writes it
\*   "onwci"    the same words in another casing ('on weekends')
\*   "text"     any other free text ('TBD', 'Yummy Udon Noodles')
\*   "sp"       one blank
\*   "warn"     the text '(Nagbot: Warned on YYYY-MM-DD)' for calendar day d
\*   "warnbad"  the same parenthetical around a "baddate"
Tok(k, d) == [k |-> k, d |-> d]

\* ---------------------------------------------------------------- parsing
ParsedDate(expiry_date, on_weekends, warning_date) ==
    [expiry_date |-> expiry_date, on_weekends |-> on_weekends, warning_date |-> warning_date]

\* datetime_value.strftime('%Y-%m-%d') of a date read by strptime.
date_to_string(datetime_value) ==
    IF datetime_value = Year999 /\ ~strftime_pads_year THEN Year999Unpadded
    ELSE datetime_value

\* r'\d{4}-\d{2}-\d{2}' matches the text of a "date" or "warn" token.
matches_date(token) == token.d # Year999Unpadded

\* re.match(r'^(\d{4}-\d{2}-\d{2})', date_tag) followed by strptime, whose
\* ValueError is swallowed.
parse_expiry_date(date_tag) ==
    IF Len(date_tag) > 0 /\ date_tag[1].k = "date" /\ matches_date(date_tag[1])
    THEN date_to_string(date_tag[1].d) ELSE None

\* re.match(r'^On Weekends', date_tag, re.IGNORECASE)
parse_on_weekends(date_tag) ==
    Len(date_tag) > 0 /\ date_tag[1].k \in {"onw", "onwci"}

\* re.match(r'.*\(Nagbot: Warned on (\d{4}-\d{2}-\d{2})\)$', date_tag); the
\* strptime that follows is not guarded (see parse_date_tag_raises).
parse_warning_date(date_tag) ==
    IF Len(date_tag) > 0 /\ date_tag[Len(date_tag)].k = "warn"
       /\ matches_date(date_tag[Len(date_tag)])
    THEN date_to_string(date_tag[Len(date_tag)].d) ELSE None

\* TRUE when parse_date_tag leaves by the ValueError of the second strptime.
parse_date_tag_raises(date_tag) ==
    Len(date_tag) > 0 /\ date_tag[Len(date_tag)].k = "warnbad"

\* The ParsedDate returned when parse_date_tag returns.
parse_date_tag(date_tag) ==
    ParsedDate(parse_expiry_date(date_tag), parse_on_weekends(date_tag), parse_warning_date(date_tag))

\* ParsedDate.__str__
ParsedDate_str(p) ==
    LET head == IF p.on_weekends THEN <<Tok("onw", 0)>>
                ELSE IF p.expiry_date # None THEN <<Tok("date", p.expiry_date)>>
                ELSE <<>>
    IN  IF p.warning_date # None
        THEN head \o <<Tok("sp", 0), Tok("warn", p.warning_date)>>
        ELSE head

add_warning_to_tag(old_date_tag, warning_date, replace) ==
    LET parsed_date == parse_date_tag(old_date_tag)
    IN  IF parsed_date.warning_date = None \/ replace
        THEN ParsedDate_str([parsed_date EXCEPT !.warning_date = warning_date])
        ELSE ParsedDate_str(parsed_date)

\* ------------------------------------------------------------ module clock
\* The module-level constants computed when the process starts.
TERMINATION_WARNING_DAYS == 3

TODAY_YYYY_MM_DD == clock

weekday(d) == (d + 2) % 7

\* The weekend starting on Saturday.
TODAY_IS_WEEKEND_from_saturday == weekday(clock) >= 5

TODAY_IS_WEEKEND == weekday(clock) >= 4

MIN_TERMINATION_WARNING_YYYY_MM_DD == clock - 3

\* ------------------------------------------------------------------ util.py
has_date_passed(expiry_date, today) ==
    expiry_date # None /\ today >= expiry_date

\* ----------------------------------------------------------------- sqaws.py
\* A resource is a record with the fields the predicates read:
\*   ec2_type, state, stop_after, terminate_after, eks_nodegroup_name,
\*   is_ami_snapshot, is_aws_backup_snapshot.
\* An unspecified date treated as past whatever the weekend flag says.
generic_is_stoppable_ignoring_on_weekends(r, today, weekend) ==
    IF r.ec2_type # "instance" THEN FALSE
    ELSE LET parsed_date == parse_date_tag(r.stop_after)
         IN  r.state = "running" /\
             (   parsed_date.expiry_date = None
              \/ (parsed_date.on_weekends /\ weekend)
              \/ (parsed_date.expiry_date # None /\ today >= parsed_date.expiry_date))

\* The rule of the tag alone, whatever the type and the state.
generic_is_stoppable_by_tag_alone(r, today, weekend) ==
    LET parsed_date == parse_date_tag(r.stop_after)
    IN  \/ (parsed_date.expiry_date = None /\ ~parsed_date.on_weekends)
        \/ (parsed_date.on_weekends /\ weekend)
        \/ (parsed_date.expiry_date # None /\ today >= parsed_date.expiry_date)

generic_is_stoppable(r, today, weekend) ==
    IF r.ec2_type # "instance" THEN FALSE
    ELSE LET parsed_date == parse_date_tag(r.stop_after)
         IN  r.state = "running" /\
             (   (parsed_date.expiry_date = None /\ ~parsed_date.on_weekends)
              \/ (parsed_date.on_weekends /\ weekend)
              \/ (parsed_date.expiry_date # None /\ today >= parsed_date.expiry_date))

\* An unset expiry date treated as one that has passed.
generic_is_terminatable_unset_is_past(r, state, today) ==
    LET parsed_date == parse_date_tag(r.terminate_after)
    IN  r.state = state /\ today >= parsed_date.expiry_date

generic_is_terminatable(r, state, today) ==
    LET parsed_date == parse_date_tag(r.terminate_after)
    IN  r.state = state /\
        (parsed_date.expiry_date # None /\ today >= parsed_date.expiry_date)

\* The termination lead time applied to stopping.
generic_is_safe_to_stop_after_lead_time(r, today, weekend) ==
    IF r.ec2_type # "instance" THEN FALSE
    ELSE LET warning_date == parse_date_tag(r.stop_after).warning_date
         IN  generic_is_stoppable(r, today, weekend)
             /\ warning_date # None /\ warning_date <= MIN_TERMINATION_WARNING_YYYY_MM_DD

\* The warning alone, without asking whether the instance is stoppable.
generic_is_safe_to_stop_on_warning_alone(r, today, weekend) ==
    IF r.ec2_type # "instance" THEN FALSE
    ELSE LET warning_date == parse_date_tag(r.stop_after).warning_date
         IN  warning_date # None /\ warning_date <= today

generic_is_safe_to_stop(r, today, weekend) ==
    IF r.ec2_type # "instance" THEN FALSE
    ELSE LET warning_date == parse_date_tag(r.stop_after).warning_date
         IN  generic_is_stoppable(r, today, weekend)
             /\ warning_date # None /\ warning_date <= today

\* Instance.is_terminatable / Volume.is_terminatable: the class fixes the state.
sqaws_is_terminatable(resource_type, r, today) ==
    generic_is_terminatable(r, IF resource_type = "Instance" THEN "stopped" ELSE "available", today)

\* The warning compared with today instead of today - 3 days.
generic_is_safe_to_terminate_without_lead_time(r, resource_type, today) ==
    LET warning_date == parse_date_tag(r.terminate_after).warning_date
    IN  sqaws_is_terminatable(resource_type, r, today)
        /\ warning_date # None /\ warning_date <= today

generic_is_safe_to_terminate(r, resource_type, today) ==
    LET warning_date == parse_date_tag(r.terminate_after).warning_date
    IN  sqaws_is_terminatable(resource_type, r, today)
        /\ warning_date # None /\ warning_date <= MIN_TERMINATION_WARNING_YYYY_MM_DD

\* The class of sqaws.py that holds a resource of this ec2_type.
sqaws_class(r) == IF r.ec2_type = "instance" THEN "Instance" ELSE "Volume"

\* ------------------------------------------------------------- new_sqaws.py
new_sqaws_Instance_is_stoppable(instance, weekend) ==
    LET parsed_date == parse_date_tag(instance.stop_after)
    IN  instance.state = "running" /\
        (   (parsed_date.expiry_date = None /\ ~parsed_date.on_weekends)
         \/ (parsed_date.on_weekends /\ weekend)
         \/ (parsed_date.expiry_date # None /\ TODAY_YYYY_MM_DD >= parsed_date.expiry_date))

new_sqaws_Instance_is_terminatable(r) ==
    LET parsed_date == parse_date_tag(r.terminate_after)
    IN  r.state = "stopped" /\
        (parsed_date.expiry_date # None /\ TODAY_YYYY_MM_DD >= parsed_date.expiry_date)

\* A warning must be older than today.
new_sqaws_Instance_is_safe_to_stop_next_day(instance, weekend) ==
    LET warning_date == parse_date_tag(instance.stop_after).warning_date
    IN  new_sqaws_Instance_is_stoppable(instance, weekend)
        /\ warning_date # None /\ warning_date < TODAY_YYYY_MM_DD

new_sqaws_Instance_is_safe_to_stop(instance, weekend) ==
    LET warning_date == parse_date_tag(instance.stop_after).warning_date
    IN  new_sqaws_Instance_is_stoppable(instance, weekend)
        /\ warning_date # None /\ warning_date <= TODAY_YYYY_MM_DD

new_sqaws_Instance_is_safe_to_terminate(r) ==
    LET warning_date == parse_date_tag(r.terminate_after).warning_date
    IN  new_sqaws_Instance_is_terminatable(r)
        /\ warning_date # None /\ warning_date <= MIN_TERMINATION_WARNING_YYYY_MM_DD

new_sqaws_Volume_is_terminatable(r) ==
    LET parsed_date == parse_date_tag(r.terminate_after)
    IN  r.state = "available" /\
        (parsed_date.expiry_date # None /\ TODAY_YYYY_MM_DD >= parsed_date.expiry_date)

new_sqaws_Volume_is_safe_to_terminate(r) ==
    LET warning_date == parse_date_tag(r.terminate_after).warning_date
    IN  new_sqaws_Volume_is_terminatable(r)
        /\ warning_date # None /\ warning_date <= MIN_TERMINATION_WARNING_YYYY_MM_DD

\* ---------------------------------------------------------------- nagbot.py
\* TODAY_YYYY_MM_DD >= parsed_date.expiry_date is reached only with a date:
\* the first disjunct short-circuits when expiry_date is None.
is_stoppable(instance) ==
    LET parsed_date == parse_date_tag(instance.stop_after)
    IN  instance.state = "running" /\
        (   parsed_date.expiry_date = None
         \/ (TODAY_IS_WEEKEND /\ parsed_date.on_weekends)
         \/ TODAY_YYYY_MM_DD >= parsed_date.expiry_date)

is_terminatable(instance) ==
    LET parsed_date == parse_date_tag(instance.terminate_after)
    IN  instance.state = "stopped" /\
        (parsed_date.expiry_date # None /\ TODAY_YYYY_MM_DD >= parsed_date.expiry_date)

is_safe_to_stop(instance) ==
    LET warning_date == parse_date_tag(instance.stop_after).warning_date
    IN  is_stoppable(instance) /\ warning_date # None /\ warning_date <= TODAY_YYYY_MM_DD

\* The warning compared with today instead of today - 3 days.
is_safe_to_terminate_without_lead_time(instance) ==
    LET warning_date == parse_date_tag(instance.terminate_after).warning_date
    IN  is_terminatable(instance) /\ warning_date # None
        /\ warning_date <= TODAY_YYYY_MM_DD

is_safe_to_terminate(instance) ==
    LET warning_date == parse_date_tag(instance.terminate_after).warning_date
    IN  is_terminatable(instance) /\ warning_date # None
        /\ warning_date <= MIN_TERMINATION_WARNING_YYYY_MM_DD

\* --------------------------------------------------------------- resource.py
\* The base class of instance.py, snapshot.py and ami.py.
Resource_can_be_terminated(self, today) ==
    has_date_passed(parse_date_tag(self.terminate_after).expiry_date, today)

\* Only an instance can be stopped: the stop predicates of the base class,
\* which snapshot.py and ami.py do not override, answer False.
Resource_can_be_stopped(self, today, weekend) == FALSE

Resource_is_safe_to_stop(self, today, weekend) == FALSE

\* --------------------------------------------------------------- instance.py
Instance_is_stoppable_without_warning(self, weekend) ==
    LET parsed_date == parse_date_tag(self.stop_after)
    IN  self.state = "running" /\ parsed_date.expiry_date = None /\
        (~parsed_date.on_weekends \/ (parsed_date.on_weekends /\ weekend))

Instance_is_stoppable(self, today, weekend) ==
    LET parsed_date == parse_date_tag(self.stop_after)
    IN  self.state = "running" /\
        (   (parsed_date.expiry_date = None /\ ~parsed_date.on_weekends)
         \/ (parsed_date.on_weekends /\ weekend)
         \/ (parsed_date.expiry_date # None /\ today >= parsed_date.expiry_date))

Instance_can_be_stopped(self, today, weekend) ==
    ~(Len(self.eks_nodegroup_name) > 0) /\
    (Instance_is_stoppable(self, today, weekend) \/ Instance_is_stoppable_without_warning(self, weekend))

\* util.has_date_passed(warning_date) is called with one argument where the
\* function takes two: the call raises TypeError.  It is reached when the
\* operands before it do not settle the result.
Instance_is_safe_to_stop_raises(self, today, weekend) ==
    ~(Len(self.eks_nodegroup_name) > 0)
    /\ ~Instance_is_stoppable_without_warning(self, weekend)
    /\ Instance_is_stoppable(self, today, weekend)

\* The value returned when is_safe_to_stop returns.
Instance_is_safe_to_stop(self, today, weekend) ==
    ~(Len(self.eks_nodegroup_name) > 0) /\ Instance_is_stoppable_without_warning(self, weekend)

Instance_can_be_terminated(self, today) ==
    self.state = "stopped" /\ ~(Len(self.eks_nodegroup_name) > 0)
    /\ Resource_can_be_terminated(self, today)

\* --------------------------------------------------------------- snapshot.py
\* The two exclusion flags not consulted.
Snapshot_can_be_terminated_ignoring_flags(self, today) ==
    self.state = "completed" /\ Resource_can_be_terminated(self, today)

Snapshot_can_be_terminated(self, today) ==
    IF self.is_ami_snapshot \/ self.is_aws_backup_snapshot THEN FALSE
    ELSE self.state = "completed" /\ Resource_can_be_terminated(self, today)

\* -------------------------------------------------------------------- ami.py
Ami_can_be_terminated(self, today) ==
    self.state = "available"
    /\ has_date_passed(parse_date_tag(self.terminate_after).expiry_date, today)

\* self.can_be_terminated(...): the method of the object's own class.
can_be_terminated(self, today) ==
    CASE self.ec2_type = "instance" -> Instance_can_be_terminated(self, today)
      [] self.ec2_type = "snapshot" -> Snapshot_can_be_terminated(self, today)
      [] self.ec2_type = "ami"      -> Ami_can_be_terminated(self, today)
      [] OTHER                      -> Resource_can_be_terminated(self, today)

\* resource.py
Resource_is_safe_to_terminate_after_warning(self, today) ==
    LET warning_date == parse_date_tag(self.terminate_after).warning_date
    IN  can_be_terminated(self, today)
        /\ warning_date # None /\ warning_date <= MIN_TERMINATION_WARNING_YYYY_MM_DD

Instance_is_safe_to_terminate_after_warning(self, today) ==
    self.state = "stopped" /\ ~(Len(self.eks_nodegroup_name) > 0)
    /\ Resource_is_safe_to_terminate_after_warning(self, today)

Snapshot_is_safe_to_terminate_after_warning(self, today) ==
    self.state = "completed" /\ Resource_is_safe_to_terminate_after_warning(self, today)

Ami_is_safe_to_terminate_after_warning(self, today) ==
    self.state = "available" /\ Resource_is_safe_to_terminate_after_warning(self, today)

\* ------------------------------------------------------- policy evaluation
\* The predicates of every revision applied to one resource, as the tests
\* apply them: today_date is the date of the process's own clock, is_weekend
\* is passed explicitly.
NoResult == [done |-> FALSE]

Heads ==
    {<<>>, <<Tok("text", 0)>>, <<Tok("onw", 0)>>, <<Tok("onwci", 0)>>, <<Tok("baddate", 0)>>}
    \cup {<<Tok("date", d)>> : d \in Days}

Tails == {<<>>} \cup {<<Tok("sp", 0), Tok("warn", w)>> : w \in Days}

\* Tag values: nothing, free text, a date or a weekend marker, each with or
\* without a warning.
Tags == {h \o t : h \in Heads, t \in Tails}

\* Tag values of the tag a predicate does not read.
OtherTags == {<<>>, <<Tok("text", 0)>>}

KindStates ==
    [instance |-> {"running", "stopped"}, volume |-> {"available", "in-use"},
     snapshot |-> {"completed", "pending"}, ami |-> {"available", "pending"}]

MakeResource(kind, state, s_after, t_after, eks, is_ami, is_backup) ==
    [ec2_type |-> kind, state |-> state, stop_after |-> s_after, terminate_after |-> t_after,
     eks_nodegroup_name |-> eks, is_ami_snapshot |-> is_ami, is_aws_backup_snapshot |-> is_backup]

PolicyResources ==
    {MakeResource(kind, state, tt[1], tt[2], eks, fl[1], fl[2]) :
        kind \in {"instance", "volume", "snapshot", "ami"},
        state \in {"running", "stopped", "available", "in-use", "completed", "pending"},
        tt \in (Tags \X OtherTags) \cup (OtherTags \X Tags),
        eks \in {<<>>, <<"ng">>},
        fl \in BOOLEAN \X BOOLEAN}

PolicyInput(r) ==
    /\ r.state \in KindStates[r.ec2_type]
    /\ (r.ec2_type # "instance" => r.eks_nodegroup_name = <<>>)
    /\ (r.ec2_type # "snapshot" => ~r.is_ami_snapshot /\ ~r.is_aws_backup_snapshot)

InitPolicy ==
    /\ clock \in Week
    /\ resource \in {r \in PolicyResources : PolicyInput(r)}
    /\ today_date = TODAY_YYYY_MM_DD
    /\ is_weekend \in BOOLEAN
    /\ result = NoResult
    /\ rev = "none" /\ ec2 = <<>> /\ run = [mode |-> "none"]
    /\ notify_warned = <<>> /\ pristine = {}
    /\ process = NoProcess
    /\ strftime_pads_year = FALSE

EvaluatePolicy ==
    /\ ~result.done
    /\ result' =
        LET r == resource
            inst == r.ec2_type = "instance"
            vol == r.ec2_type = "volume"
        IN  [done |-> TRUE,
             \* the module constant the is_weekend parameters default to
             today_is_weekend |-> TODAY_IS_WEEKEND,
             \* sqaws.py: Instance and Volume
             sqaws_is_stoppable |-> (inst \/ vol) /\ generic_is_stoppable(r, today_date, is_weekend),
             sqaws_is_safe_to_stop |-> (inst \/ vol) /\ generic_is_safe_to_stop(r, today_date, is_weekend),
             sqaws_is_terminatable |-> (inst \/ vol) /\ sqaws_is_terminatable(sqaws_class(r), r, today_date),
             sqaws_is_safe_to_terminate |->
                 (inst \/ vol) /\ generic_is_safe_to_terminate(r, sqaws_class(r), today_date),
             \* new_sqaws.py: Instance and Volume
             new_is_stoppable |-> inst /\ new_sqaws_Instance_is_stoppable(r, is_weekend),
             new_is_safe_to_stop |-> inst /\ new_sqaws_Instance_is_safe_to_stop(r, is_weekend),
             new_is_terminatable |->
                 \/ inst /\ new_sqaws_Instance_is_terminatable(r)
                 \/ vol /\ new_sqaws_Volume_is_terminatable(r),
             new_is_safe_to_terminate |->
                 \/ inst /\ new_sqaws_Instance_is_safe_to_terminate(r)
                 \/ vol /\ new_sqaws_Volume_is_safe_to_terminate(r),
             \* nagbot.py: instances
             nagbot_is_stoppable |-> inst /\ is_stoppable(r),
             nagbot_is_safe_to_stop |-> inst /\ is_safe_to_stop(r),
             nagbot_is_terminatable |-> inst /\ is_terminatable(r),
             nagbot_is_safe_to_terminate |-> inst /\ is_safe_to_terminate(r),
             \* instance.py, snapshot.py, ami.py
             can_be_stopped |->
                 IF inst THEN Instance_can_be_stopped(r, today_date, is_weekend)
                 ELSE ~vol /\ Resource_can_be_stopped(r, today_date, is_weekend),
             is_safe_to_stop_raises |-> inst /\ Instance_is_safe_to_stop_raises(r, today_date, is_weekend),
             is_safe_to_stop |->
                 IF inst THEN Instance_is_safe_to_stop(r, today_date, is_weekend)
                 ELSE ~vol /\ Resource_is_safe_to_stop(r, today_date, is_weekend),
             can_be_terminated |-> ~vol /\ can_be_terminated(r, today_date),
             is_safe_to_terminate_after_warning |->
                 CASE inst -> Instance_is_safe_to_terminate_after_warning(r, today_date)
                   [] r.ec2_type = "snapshot" -> Snapshot_is_safe_to_terminate_after_warning(r, today_date)
                   [] r.ec2_type = "ami" -> Ami_is_safe_to_terminate_after_warning(r, today_date)
                   [] OTHER -> FALSE]
    /\ UNCHANGED <<clock, resource, today_date, is_weekend>>
    /\ UNCHANGED run_vars
    /\ UNCHANGED platform_vars

NextPolicy == EvaluatePolicy

SpecPolicy == InitPolicy /\ [][NextPolicy]_vars

\* ---------------------------------------------------------- parsing inputs
\* The tag texts handed to parse_date_tag and add_warning_to_tag: a head (none,
\* free text, 'On Weekends' in either casing, a date-shaped text that is or
\* is not a calendar date), optional free text, and a tail (none, a warning
\* marker around a date that is or is not a calendar date, a marker followed
\* by more text).
DateTexts == Days \cup {Year999, Year999Unpadded}

ParseHeads ==
    {<<>>, <<Tok("text", 0)>>, <<Tok("onw", 0)>>, <<Tok("onwci", 0)>>, <<Tok("baddate", 0)>>}
        \cup {<<Tok("date", d)>> : d \in DateTexts}

ParseMiddles == {<<>>, <<Tok("sp", 0), Tok("text", 0)>>}

ParseTails ==
    {<<>>, <<Tok("sp", 0), Tok("warnbad", 0)>>,
     <<Tok("sp", 0), Tok("warn", 0), Tok("text", 0)>>}
        \cup {<<Tok("sp", 0), Tok("warn", w)>> : w \in DateTexts}

ParseInputs == {h \o m \o t : h \in ParseHeads, m \in ParseMiddles, t \in ParseTails}

InitParsing ==
    /\ clock \in Days
    /\ resource \in [date_tag : ParseInputs, replace : BOOLEAN]
    /\ strftime_pads_year \in BOOLEAN
    /\ today_date = 0 /\ is_weekend = FALSE /\ result = NoResult
    /\ rev = "none" /\ ec2 = <<>> /\ run = [mode |-> "none"]
    /\ notify_warned = <<>> /\ pristine = {}
    /\ process = NoProcess

\* str(parse_date_tag(date_tag)) and its second parse.  The fields after
\* raises describe the call only when it returns.
Parse ==
    /\ ~result.done
    /\ result' =
        LET parsed_date == parse_date_tag(resource.date_tag)
        IN  [done |-> TRUE, op |-> "parse_date_tag",
             raises |-> parse_date_tag_raises(resource.date_tag),
             parsed_date |-> parsed_date,
             str |-> ParsedDate_str(parsed_date),
             reparse_raises |-> parse_date_tag_raises(ParsedDate_str(parsed_date)),
             reparsed |-> parse_date_tag(ParsedDate_str(parsed_date))]
    /\ UNCHANGED <<clock, resource, today_date, is_weekend>>
    /\ UNCHANGED run_vars
    /\ UNCHANGED platform_vars

\* add_warning_to_tag(date_tag, TODAY_YYYY_MM_DD, replace), applied once and
\* then again to its own output.  add_warning_to_tag raises when its
\* parse_date_tag does.
AddWarning ==
    /\ ~result.done
    /\ result' =
        LET once == add_warning_to_tag(resource.date_tag, TODAY_YYYY_MM_DD, resource.replace)
        IN  [done |-> TRUE, op |-> "add_warning_to_tag",
             raises |-> parse_date_tag_raises(resource.date_tag),
             once |-> once,
             twice_raises |-> parse_date_tag_raises(once),
             twice |-> add_warning_to_tag(once, TODAY_YYYY_MM_DD, resource.replace)]
    /\ UNCHANGED <<clock, resource, today_date, is_weekend>>
    /\ UNCHANGED run_vars
    /\ UNCHANGED platform_vars

NextParsing == Parse \/ AddWarning

SpecParsing == InitParsing /\ [][NextParsing]_vars

\* ---------------------------------------------------------------- tag names
\* A tag key as the words and separators it is written with.
TagKeys ==
    {<<"Stop", "After">>, <<"stop", " ", "after">>, <<"STOP", "_", "AFTER">>, <<"stop">>,
     <<"after", " ", "stop">>, <<"stopper", " ", "after">>,
     <<"Terminate", "After">>, <<"terminate", "_", "after">>, <<"terminate">>,
     <<"Nagbot", "State">>, <<"nagbot", " ", "state">>, <<"Name">>}

MaxTags == 3

\* str.lower(), word by word
lower_word(w) ==
    CASE w \in {"Stop", "STOP"} -> "stop"
      [] w \in {"After", "AFTER"} -> "after"
      [] w = "Terminate" -> "terminate"
      [] w = "Nagbot" -> "nagbot"
      [] w = "State" -> "state"
      [] w = "Name" -> "name"
      [] OTHER -> w

\* key.lower().startswith(prefix), for the prefixes 'stop', 'terminate', 'nagbot'
startswith(key, prefix) ==
    \/ lower_word(key[1]) = prefix
    \/ prefix = "stop" /\ lower_word(key[1]) = "stopper"

\* word in key.lower(), for the words 'after' and 'state'
contains(key, word) == \E j \in 1..Len(key) : lower_word(key[j]) = word

\* A loop that takes any key starting with the prefix, whatever else is in it.
RECURSIVE tag_name_loop_prefix_only(_, _, _, _)
tag_name_loop_prefix_only(keys, prefix, word, name) ==
    IF keys = <<>> THEN name
    ELSE tag_name_loop_prefix_only(Tail(keys), prefix, word,
                       IF startswith(Head(keys), prefix) THEN Head(keys) ELSE name)

\* The loop of get_tag_names for one of the three names: every key that
\* matches replaces the name found so far, so the last one stays.
RECURSIVE tag_name_loop(_, _, _, _)
tag_name_loop(keys, prefix, word, name) ==
    IF keys = <<>> THEN name
    ELSE tag_name_loop(Tail(keys), prefix, word,
                       IF startswith(Head(keys), prefix) /\ contains(Head(keys), word)
                       THEN Head(keys) ELSE name)

\* get_tag_names(tags), tags being the keys of the dict in its order
get_tag_names(tags) ==
    [stop_after_tag_name |-> tag_name_loop(tags, "stop", "after", <<"Stop", "After">>),
     terminate_after_tag_name |-> tag_name_loop(tags, "terminate", "after", <<"Terminate", "After">>),
     nagbot_state_tag_name |-> tag_name_loop(tags, "nagbot", "state", <<"Nagbot", "State">>)]

\* Instance.build_model: the names the Instance carries.
Instance_build_model(tags) == get_tag_names(tags)

\* Volume.build_model: the name the Volume carries, found by a loop of its own.
Volume_build_model(tags) ==
    [terminate_after_tag_name |-> tag_name_loop(tags, "terminate", "after", <<"Terminate", "After">>)]

\* The dicts of tags: up to MaxTags distinct keys in some order.
TagDicts ==
    {t \in UNION {[1..n -> TagKeys] : n \in 0..MaxTags} :
        \A j, k \in 1..Len(t) : j # k => t[j] # t[k]}

InitTags ==
    /\ resource \in [ec2_type : {"instance", "volume"}, tags : TagDicts]
    /\ clock = 0 /\ today_date = 0 /\ is_weekend = FALSE /\ result = NoResult
    /\ rev = "none" /\ ec2 = <<>> /\ run = [mode |-> "none"]
    /\ notify_warned = <<>> /\ pristine = {}
    /\ process = NoProcess
    /\ strftime_pads_year = FALSE

\* An instance is built from its tags and notify and execute pass its names
\* to set_tag: terminate_after_tag_name and stop_after_tag_name in notify,
\* nagbot_state_tag_name in execute.
InstanceTagWrites ==
    /\ ~result.done /\ resource.ec2_type = "instance"
    /\ result' =
        LET i == Instance_build_model(resource.tags)
        IN  [done |-> TRUE, names |-> get_tag_names(resource.tags),
             notify_terminate |-> i.terminate_after_tag_name,
             notify_stop |-> i.stop_after_tag_name,
             execute_state |-> i.nagbot_state_tag_name]
    /\ UNCHANGED <<clock, resource, today_date, is_weekend>>
    /\ UNCHANGED run_vars
    /\ UNCHANGED platform_vars

\* A volume is built from its tags and notify passes its name to set_tag.
VolumeTagWrites ==
    /\ ~result.done /\ resource.ec2_type = "volume"
    /\ result' =
        LET v == Volume_build_model(resource.tags)
        IN  [done |-> TRUE, names |-> get_tag_names(resource.tags),
             notify_terminate |-> v.terminate_after_tag_name]
    /\ UNCHANGED <<clock, resource, today_date, is_weekend>>
    /\ UNCHANGED run_vars
    /\ UNCHANGED platform_vars

NextTags == InstanceTagWrites \/ VolumeTagWrites

SpecTags == InitTags /\ [][NextTags]_vars

\* ------------------------------------------------- deleting snapshots and AMIs
MaxSnapshots == 3

Call(op, id, ok) == [op |-> op, id |-> id, ok |-> ok]

\* What a provider call does: it returns, or raises an exception whose str()
\* is the message (which may be empty).
ProviderOutcomes == {"ok", "", "An error occurred (OperationNotPermitted)"}

\* Python values a terminate_resource returns, and bool() of them.
PyNone == [type |-> "NoneType"]

PyStr(s) == [type |-> "str", value |-> s]

PyBool(b) == [type |-> "bool", value |-> b]

truthy(v) ==
    CASE v.type = "NoneType" -> FALSE
      [] v.type = "str" -> v.value # ""
      [] v.type = "bool" -> v.value

InitDelete ==
    /\ \E n \in 0..MaxSnapshots :
          /\ resource \in [ec2_type : {"snapshot", "ami"}, snapshot_ids : {[j \in 1..n |-> j]},
                            dryrun : BOOLEAN]
          /\ resource.ec2_type = "snapshot" => n = 1
          /\ ec2 \in [deregister : ProviderOutcomes, delete : [1..n -> ProviderOutcomes]]
          /\ resource.ec2_type = "snapshot" => ec2.deregister = "ok"
    /\ clock = 0 /\ today_date = 0 /\ is_weekend = FALSE /\ result = NoResult
    /\ rev = "none" /\ run = [mode |-> "none"]
    /\ notify_warned = <<>> /\ pristine = {}
    /\ process = NoProcess
    /\ strftime_pads_year = FALSE

\* Snapshot.terminate_resource(dryrun) of snapshot.py, on the snapshot whose
\* id is resource.snapshot_ids[1].
Snapshot_terminate_resource ==
    LET id == resource.snapshot_ids[1]
    IN  IF resource.dryrun THEN [calls |-> <<>>, raised |-> FALSE, returned |-> PyNone]
        ELSE [calls |-> <<Call("delete", id, ec2.delete[id] = "ok")>>,
              raised |-> FALSE,
              returned |-> IF ec2.delete[id] = "ok" THEN PyNone ELSE PyStr(ec2.delete[id])]

\* The loop over self.snapshot_ids of Ami.terminate_resource, stopping at the
\* first delete that fails.
Ami_delete_snapshots_until_failure ==
    LET ids == resource.snapshot_ids
        bad == {j \in 1..Len(ids) : ec2.delete[ids[j]] # "ok"}
        n   == IF bad = {} THEN Len(ids) ELSE CHOOSE j \in bad : \A k \in bad : j <= k
    IN  [j \in 1..n |-> Call("delete", ids[j], ec2.delete[ids[j]] = "ok")]

\* The loop over self.snapshot_ids of Ami.terminate_resource: every id is
\* tried, a failure is printed and remembered.
Ami_delete_snapshots ==
    [j \in 1..Len(resource.snapshot_ids) |->
        Call("delete", resource.snapshot_ids[j], ec2.delete[resource.snapshot_ids[j]] = "ok")]

\* Ami.terminate_resource(dryrun) of ami.py
Ami_terminate_resource ==
    IF resource.dryrun THEN [calls |-> <<>>, raised |-> FALSE, returned |-> PyBool(TRUE)]
    ELSE IF ec2.deregister # "ok"
    THEN [calls |-> <<Call("deregister", 0, FALSE)>>, raised |-> FALSE,
          returned |-> PyBool(FALSE)]
    ELSE [calls |-> <<Call("deregister", 0, TRUE)>> \o Ami_delete_snapshots,
          raised |-> FALSE,
          returned |-> PyBool(\A j \in 1..Len(Ami_delete_snapshots) : Ami_delete_snapshots[j].ok)]

SnapshotTerminate ==
    /\ ~result.done /\ resource.ec2_type = "snapshot"
    /\ result' = [done |-> TRUE, op |-> "Snapshot.terminate_resource",
                  out |-> Snapshot_terminate_resource]
    /\ UNCHANGED <<clock, resource, today_date, is_weekend>>
    /\ UNCHANGED run_vars
    /\ UNCHANGED platform_vars

AmiTerminate ==
    /\ ~result.done /\ resource.ec2_type = "ami"
    /\ result' = [done |-> TRUE, op |-> "Ami.terminate_resource",
                  out |-> Ami_terminate_resource]
    /\ UNCHANGED <<clock, resource, today_date, is_weekend>>
    /\ UNCHANGED run_vars
    /\ UNCHANGED platform_vars

NextDelete == SnapshotTerminate \/ AmiTerminate

SpecDelete == InitDelete /\ [][NextDelete]_vars

\* ================================================= the provider and the runs
Ids == 1..NumResources

\* The order in which describe_instances / describe_volumes list resources.
AllIds == [i \in Ids |-> i]

Range(seq) == {seq[j] : j \in 1..Len(seq)}

\* Index of the first element of todo on which the provider call raises,
\* Len(todo) + 1 when none does.
FirstFailure(todo, failing) ==
    LET bad == {j \in 1..Len(todo) : todo[j] \in failing}
    IN  IF bad = {} THEN Len(todo) + 1 ELSE CHOOSE j \in bad : \A k \in bad : j <= k

Prefix(seq, n) == SubSeq(seq, 1, IF n < Len(seq) THEN n ELSE Len(seq))

NoFailure == [enum |-> FALSE, op |-> {}, tag |-> {}, report |-> FALSE, slack |-> FALSE]

NoRun ==
    [mode |-> "none", dryrun |-> FALSE, failure |-> NoFailure, raised |-> "", msgs |-> <<>>,
     calls |-> <<>>]

\* A message that names its list only when the list holds something.
Msg_unlabelled_when_empty(kind, ids) ==
    [kind |-> IF ids = <<>> THEN "" ELSE kind, ids |-> ids]

\* A message sent to the channel: the list it is about ("summary",
\* "terminate", "stop", "delete", "failure") and the resources it names, none
\* in the 'No ... at this time' / 'No ... today' form.
Msg(kind, ids) == [kind |-> kind, ids |-> ids]

\* The resources a message reports as failed.  Every message is written from
\* the list of resources selected, line by line before the call on each, and
\* the value the call returns is dropped: no line depends on it.
FailureLines(message) == {}

\* No resource behind this id.
Absent ==
    [ec2_type |-> "none", state |-> "absent", name |-> "", eks_nodegroup_name |-> <<>>,
     stop_after |-> <<>>, terminate_after |-> <<>>, nagbot_state |-> <<>>]

\* The instances the account starts with: state, Name, node group,
\* "Stop after" and "Terminate after" as their owners wrote them.
InitInstances ==
    {[ec2_type |-> "instance", state |-> p[1], name |-> p[2], eks_nodegroup_name |-> p[3],
      stop_after |-> p[4], terminate_after |-> p[5], nagbot_state |-> <<>>] :
        p \in {<<"running", "Stephen", <<>>, <<Tok("date", 0)>>, <<>> >>,
               <<"running", "Stephen", <<>>, <<Tok("onw", 0)>>, <<>> >>,
               <<"running", "Stephen", <<>>, <<>>, <<>> >>,
               <<"stopped", "Stephen", <<>>, <<>>, <<Tok("date", 0)>> >>,
               <<"stopped", "Stephen", <<>>, <<>>, <<Tok("date", 0), Tok("sp", 0), Tok("warn", 0)>> >>,
               <<"running", "bam::build:bamboo", <<>>, <<Tok("date", 0)>>, <<>> >>,
               <<"running", "Stephen", <<"ng">>, <<Tok("date", 0)>>, <<>> >>,
               <<"stopped", "Stephen", <<"ng">>, <<>>, <<Tok("date", 0)>> >>}}

\* The volumes the account starts with.
InitVolumes ==
    {[ec2_type |-> "volume", state |-> p[1], name |-> "Quinn", eks_nodegroup_name |-> <<>>,
      stop_after |-> <<>>, terminate_after |-> p[2], nagbot_state |-> <<>>] :
        p \in {<<"available", <<Tok("date", 0)>> >>,
               <<"in-use", <<Tok("date", 0)>> >>}}

\* What goes wrong in one run: nothing, the enumeration, the stop /
\* terminate / delete call or the create_tags call on one resource, the write
\* of the spreadsheet (report), or the first send_message call of the
\* process (slack).
Failures ==
    {NoFailure, [NoFailure EXCEPT !.enum = TRUE], [NoFailure EXCEPT !.report = TRUE],
     [NoFailure EXCEPT !.slack = TRUE]}
    \cup {[NoFailure EXCEPT !.op = {i}] : i \in Ids}
    \cup {[NoFailure EXCEPT !.tag = {i}] : i \in Ids}

\* describe_instances keeps listing a terminated instance; describe_volumes
\* no longer lists a deleted volume.
describe_instances == SelectSeq(AllIds, LAMBDA i : ec2[i].ec2_type = "instance")

describe_volumes ==
    SelectSeq(AllIds, LAMBDA i : ec2[i].ec2_type = "volume" /\ ec2[i].state # "deleted")

\* nagbot.py
is_whitelisted(instance) == instance.name = "bam::build:bamboo"

\* The part of a failure that is no provider call on a resource (those are
\* recorded call by call).
Collaborators(f) == [f EXCEPT !.op = {}, !.tag = {}]

\* What a run leaves behind: the record of the run (notify/execute catch the
\* exception of the internal method, send the failure message and re-raise),
\* the provider's new state and the warnings notify wrote today.  When the
\* internal method raised before it sent anything, the failure message is the
\* first send_message call: if that call raises, its exception leaves the
\* handler and the channel gets nothing.
\* notify / execute passing the exception on without a message.
Delivered_without_notice(f, raised, msgs) == msgs

\* The messages the channel holds once notify / execute has dealt with the
\* exception, if any, of its internal method.
Delivered(f, raised, msgs) ==
    IF raised = "" \/ (f.slack /\ raised # "SendError") THEN msgs
    ELSE Append(msgs, Msg("failure", <<>>))

Finish(mode, dryrun, f, raised, msgs, calls, new_ec2, warned) ==
    /\ run' = [mode |-> mode, dryrun |-> dryrun, failure |-> Collaborators(f), raised |-> raised,
               msgs |-> Delivered(f, raised, msgs), calls |-> calls]
    /\ ec2' = new_ec2
    /\ notify_warned' =
         [i \in Ids |-> IF i \in warned THEN notify_warned[i] \cup {clock} ELSE notify_warned[i]]
    /\ UNCHANGED <<clock, rev, pristine>>
    /\ UNCHANGED policy_vars
    /\ UNCHANGED platform_vars

\* The create_tags calls of one loop of notify over todo: the call on the
\* first resource in failing raises and ends the loop.
TagCalls(todo, failing) ==
    [j \in 1..Len(Prefix(todo, FirstFailure(todo, failing))) |->
        Call("create_tags", todo[j], todo[j] \notin failing)]

\* ---- nagbot.py: Nagbot.notify
\* The spreadsheet is written inside a try block of its own, which prints
\* the exception and goes on; the summary is the first message sent.
Nagbot_notify(f) ==
    IF f.enum
    THEN Finish("notify", FALSE, f, "Exception", <<>>, <<>>, ec2, {})
    ELSE IF f.slack
    THEN Finish("notify", FALSE, f, "SendError", <<>>, <<>>, ec2, {})
    ELSE
    LET all_instances == describe_instances
        instances == SelectSeq(all_instances, LAMBDA i : ~is_whitelisted(ec2[i]))
        instances_to_terminate == SelectSeq(instances, LAMBDA i : is_terminatable(ec2[i]))
        instances_to_stop == SelectSeq(instances, LAMBDA i : is_stoppable(ec2[i]))
        kt == FirstFailure(instances_to_terminate, f.tag)
        t_raised == kt <= Len(instances_to_terminate)
        ks == FirstFailure(instances_to_stop, f.tag)
        s_raised == ~t_raised /\ ks <= Len(instances_to_stop)
        t_written == Range(Prefix(instances_to_terminate, kt - 1))
        s_written == IF t_raised THEN {} ELSE Range(Prefix(instances_to_stop, ks - 1))
        msgs == <<Msg("summary", all_instances)>>
                \o (IF t_raised THEN <<>> ELSE <<Msg("terminate", instances_to_terminate)>>)
                \o (IF t_raised \/ s_raised THEN <<>> ELSE <<Msg("stop", instances_to_stop)>>)
        calls == TagCalls(instances_to_terminate, f.tag)
                 \o (IF t_raised THEN <<>> ELSE TagCalls(instances_to_stop, f.tag))
        new_ec2 == [i \in Ids |->
            IF i \in t_written
            THEN [ec2[i] EXCEPT !.terminate_after = add_warning_to_tag(@, TODAY_YYYY_MM_DD, FALSE)]
            ELSE IF i \in s_written
            THEN [ec2[i] EXCEPT !.stop_after = add_warning_to_tag(@, TODAY_YYYY_MM_DD, TRUE)]
            ELSE ec2[i]]
        warned == {i \in t_written :
                     parse_date_tag(new_ec2[i].terminate_after).warning_date = TODAY_YYYY_MM_DD}
    IN  Finish("notify", FALSE, f, IF t_raised \/ s_raised THEN "Exception" ELSE "",
               msgs, calls, new_ec2, warned)

\* ---- nagbot.py: Nagbot.execute
\* The instances _execute_internal selects: those that still meet the
\* criteria and were warned.
Nagbot_instances_to_terminate ==
    SelectSeq(SelectSeq(describe_instances, LAMBDA i : is_terminatable(ec2[i])),
           LAMBDA i : is_safe_to_terminate(ec2[i]))

Nagbot_instances_to_stop_unwarned ==
    SelectSeq(describe_instances, LAMBDA i : is_stoppable(ec2[i]))

Nagbot_instances_to_stop ==
    SelectSeq(SelectSeq(describe_instances, LAMBDA i : is_stoppable(ec2[i])),
           LAMBDA i : is_safe_to_stop(ec2[i]))

\* sqaws.terminate_instance and sqaws.stop_instance return False when the
\* provider call raises; sqaws.set_tag lets the exception through.
Nagbot_execute(f) ==
    IF f.enum
    THEN Finish("execute", FALSE, f, "Exception", <<>>, <<>>, ec2, {})
    ELSE
    LET instances_to_terminate == Nagbot_instances_to_terminate
        instances_to_stop == Nagbot_instances_to_stop
        ks == FirstFailure(instances_to_stop, f.tag)
        s_raised == ks <= Len(instances_to_stop)
        stop_tried == Prefix(instances_to_stop, ks)
        tagged == Range(Prefix(instances_to_stop, ks - 1))
        terminated == Range(instances_to_terminate) \ f.op
        stopped == Range(stop_tried) \ f.op
        msgs == <<Msg("terminate", instances_to_terminate)>>
                \o (IF s_raised THEN <<>> ELSE <<Msg("stop", instances_to_stop)>>)
        calls == [j \in 1..Len(instances_to_terminate) |->
                    Call("terminate_instances", instances_to_terminate[j],
                         instances_to_terminate[j] \notin f.op)]
                 \o [j \in 1..(2 * Len(stop_tried)) |->
                       LET i == stop_tried[(j + 1) \div 2]
                       IN  IF j % 2 = 1 THEN Call("stop_instances", i, i \notin f.op)
                           ELSE Call("create_tags", i, i \notin f.tag)]
        new_ec2 == [i \in Ids |->
            IF i \in terminated THEN [ec2[i] EXCEPT !.state = "terminated"]
            ELSE [ec2[i] EXCEPT
                    !.state = IF i \in stopped THEN "stopped" ELSE @,
                    !.nagbot_state = IF i \in tagged THEN <<Tok("stopped_on", TODAY_YYYY_MM_DD)>> ELSE @]]
        \* the first message is sent once the loop over instances_to_terminate is over
        terminate_calls == SubSeq(calls, 1, Len(instances_to_terminate))
        terminated_ec2 == [i \in Ids |->
            IF i \in terminated THEN [ec2[i] EXCEPT !.state = "terminated"] ELSE ec2[i]]
    IN  IF f.slack
        THEN Finish("execute", FALSE, f, "SendError", <<>>, terminate_calls, terminated_ec2, {})
        ELSE Finish("execute", FALSE, f, IF s_raised THEN "Exception" ELSE "",
                    msgs, calls, new_ec2, {})


\* ---- new_sqaws.py
\* set_tag calling create_tags whatever dryrun says.
new_sqaws_TagCalls_ignoring_dryrun(todo, failing, dryrun) == TagCalls(todo, failing)

\* set_tag calls create_tags only when dryrun is off, so only then can it raise.
new_sqaws_TagCalls(todo, failing, dryrun) ==
    IF dryrun THEN <<>> ELSE TagCalls(todo, failing)

\* Instance.get_terminatable_resources, Instance.get_stoppable_resources and
\* Volume.get_terminatable_resources evaluate self.is_...(r) for every r of
\* resources: with a list passed as self the first evaluation raises
\* AttributeError.
get_resources_raises(self_is_list, resources) ==
    self_is_list /\ Len(resources) > 0

\* How an internal method ends: the exception it leaves by ("" when it
\* returns), the messages it sent, the provider calls it made, the provider's
\* state after them and the resources it warned.
Outcome(raised, msgs, calls, new_ec2, warned) ==
    [raised |-> raised, msgs |-> msgs, calls |-> calls, new_ec2 |-> new_ec2, warned |-> warned]

\* ---- new_nagbot.py: Nagbot.notify
notify_without_instance_filter(dryrun, f) ==
    Nagbot_notify(IF dryrun THEN [f EXCEPT !.tag = {}] ELSE f)

\* The loops over instances call Instance.make_resource_summary(i, i), which
\* reads i.resource_id: the dataclass has no such field (AttributeError).
notify_internal(dryrun, f) ==
    IF f.enum
    THEN Outcome("Exception", <<>>, <<>>, ec2, {})
    ELSE IF f.slack
    THEN Outcome("SendError", <<>>, <<>>, ec2, {})
    ELSE
    LET all_instances == describe_instances
        volumes == describe_volumes
        instances == SelectSeq(all_instances, LAMBDA i : Len(ec2[i].eks_nodegroup_name) < 0)
        instances_to_terminate ==
            SelectSeq(instances, LAMBDA i : new_sqaws_Instance_is_terminatable(ec2[i]))
        instances_to_stop ==
            SelectSeq(instances, LAMBDA i : new_sqaws_Instance_is_stoppable(ec2[i], TODAY_IS_WEEKEND))
        volumes_to_delete == SelectSeq(volumes, LAMBDA i : new_sqaws_Volume_is_terminatable(ec2[i]))
        t_raised == Len(instances_to_terminate) > 0
        s_raised == ~t_raised /\ Len(instances_to_stop) > 0
        i_raised == t_raised \/ s_raised
        fail == IF dryrun THEN {} ELSE f.tag
        kv == FirstFailure(volumes_to_delete, fail)
        v_raised == ~i_raised /\ kv <= Len(volumes_to_delete)
        v_written == IF i_raised \/ dryrun THEN {} ELSE Range(Prefix(volumes_to_delete, kv - 1))
        msgs == <<Msg("summary", all_instances \o volumes)>>
                \o (IF t_raised THEN <<>> ELSE <<Msg("terminate", instances_to_terminate)>>)
                \o (IF i_raised THEN <<>> ELSE <<Msg("stop", instances_to_stop)>>)
                \o (IF i_raised \/ v_raised THEN <<>> ELSE <<Msg("delete", volumes_to_delete)>>)
        calls == IF i_raised THEN <<>> ELSE new_sqaws_TagCalls(volumes_to_delete, f.tag, dryrun)
        new_ec2 == [i \in Ids |->
            IF i \in v_written
            THEN [ec2[i] EXCEPT !.terminate_after = add_warning_to_tag(@, TODAY_YYYY_MM_DD, TRUE)]
            ELSE ec2[i]]
    IN  Outcome(IF i_raised THEN "AttributeError" ELSE IF v_raised THEN "Exception" ELSE "",
                msgs, calls, new_ec2, v_written)

notify(dryrun, f) ==
    LET o == notify_internal(dryrun, f)
    IN  Finish("notify", dryrun, f, o.raised, o.msgs, o.calls, o.new_ec2, o.warned)

\* ---- new_nagbot.py: Nagbot.execute
\* execute_internal passes the list itself as self to get_..._resources.
\* Instance.terminate_resource, Volume.terminate_resource and
\* Instance.stop_instance return False when the provider call raises and make
\* no call under dryrun; set_tag lets the exception through.
execute_internal(dryrun, f) ==
    IF f.enum
    THEN Outcome("Exception", <<>>, <<>>, ec2, {})
    ELSE
    LET instances == describe_instances
        volumes == describe_volumes
        select_raised ==
            \/ get_resources_raises(TRUE, instances)
            \/ get_resources_raises(TRUE, volumes)
        instances_to_terminate ==
            SelectSeq(SelectSeq(instances, LAMBDA i : new_sqaws_Instance_is_terminatable(ec2[i])),
                   LAMBDA i : new_sqaws_Instance_is_safe_to_terminate(ec2[i]))
        volumes_to_delete ==
            SelectSeq(SelectSeq(volumes, LAMBDA i : new_sqaws_Volume_is_terminatable(ec2[i])),
                   LAMBDA i : new_sqaws_Volume_is_safe_to_terminate(ec2[i]))
        instances_to_stop ==
            SelectSeq(SelectSeq(instances, LAMBDA i : new_sqaws_Instance_is_stoppable(ec2[i], TODAY_IS_WEEKEND)),
                   LAMBDA i : new_sqaws_Instance_is_safe_to_stop(ec2[i], TODAY_IS_WEEKEND))
        \* the loops over instances call make_resource_summary(blank_instance, i),
        \* which reads i.resource_id (AttributeError)
        t_raised == Len(instances_to_terminate) > 0
        s_raised == ~t_raised /\ Len(instances_to_stop) > 0
        deleted == IF t_raised \/ dryrun THEN {} ELSE Range(volumes_to_delete) \ f.op
        msgs == (IF t_raised THEN <<>>
                 ELSE <<Msg("terminate", instances_to_terminate), Msg("delete", volumes_to_delete)>>)
                \o (IF t_raised \/ s_raised THEN <<>> ELSE <<Msg("stop", instances_to_stop)>>)
        calls == IF t_raised \/ dryrun THEN <<>>
                 ELSE [j \in 1..Len(volumes_to_delete) |->
                         Call("delete_volume", volumes_to_delete[j], volumes_to_delete[j] \notin f.op)]
        new_ec2 == [i \in Ids |->
            IF i \in deleted THEN [ec2[i] EXCEPT !.state = "deleted"] ELSE ec2[i]]
    IN  IF select_raised
        THEN Outcome("AttributeError", <<>>, <<>>, ec2, {})
        ELSE IF f.slack \* nothing is listed: the first 'No ... today' message
        THEN Outcome("SendError", <<>>, <<>>, ec2, {})
        ELSE Outcome(IF t_raised \/ s_raised THEN "AttributeError" ELSE "",
                     msgs, calls, new_ec2, {})

execute(dryrun, f) ==
    LET o == execute_internal(dryrun, f)
    IN  Finish("execute", dryrun, f, o.raised, o.msgs, o.calls, o.new_ec2, o.warned)

\* ------------------------------------------------------------ the account
\* The deployed revision and the resources it can see: nagbot.py 1.7.0 lists
\* instances only, and without their node group.
Init ==
    /\ clock = 0
    /\ \/ /\ rev = "nagbot"
          /\ ec2 \in [Ids -> {i \in InitInstances : i.eks_nodegroup_name = <<>>} \cup {Absent}]
       \/ /\ rev = "new_nagbot"
          /\ ec2 \in [Ids -> InitInstances \cup InitVolumes \cup {Absent}]
    /\ run = NoRun
    /\ process = NoProcess
    /\ notify_warned = [i \in Ids |-> {}]
    /\ pristine = {i \in Ids : /\ parse_date_tag(ec2[i].stop_after).warning_date = None
                               /\ parse_date_tag(ec2[i].terminate_after).warning_date = None}
    /\ resource = Absent /\ today_date = 0 /\ is_weekend = FALSE /\ result = NoResult
    /\ strftime_pads_year = FALSE

\* A provider call can fail only on a resource that exists, in a run that
\* makes provider calls.
CanFail(f, dryrun) ==
    /\ \A i \in f.op \cup f.tag : ec2[i].ec2_type # "none"
    /\ dryrun => f.op = {} /\ f.tag = {}

\* python -m app.nagbot notify
NagbotNotify ==
    /\ rev = "nagbot"
    /\ \E f \in Failures : CanFail(f, FALSE) /\ f.op = {} /\ Nagbot_notify(f)
    /\ UNCHANGED process

\* python -m app.nagbot execute
NagbotExecute ==
    /\ rev = "nagbot"
    /\ \E f \in Failures : CanFail(f, FALSE) /\ ~f.report /\ Nagbot_execute(f)
    /\ UNCHANGED process

\* python -m app.new_nagbot notify [--dryrun]
NewNagbotNotify ==
    /\ rev = "new_nagbot"
    /\ \E dryrun \in BOOLEAN, f \in Failures :
         CanFail(f, dryrun) /\ f.op = {} /\ notify(dryrun, f)
    /\ UNCHANGED process

\* python -m app.new_nagbot execute [--dryrun]
NewNagbotExecute ==
    /\ rev = "new_nagbot"
    /\ \E dryrun \in BOOLEAN, f \in Failures :
         CanFail(f, dryrun) /\ ~f.report /\ execute(dryrun, f)
    /\ UNCHANGED process

\* The next day's processes start with the next day's clock.
NextDay ==
    /\ clock < MaxDay
    /\ clock' = clock + 1
    /\ run' = NoRun
    /\ UNCHANGED <<rev, ec2, notify_warned, pristine, process>>
    /\ UNCHANGED policy_vars
    /\ UNCHANGED platform_vars

Next == NagbotNotify \/ NagbotExecute \/ NewNagbotNotify \/ NewNagbotExecute \/ NextDay

Spec == Init /\ [][Next]_vars

\* ------------------------------------------------------------ the daily jobs
\* The scheduled jobs: every day notify runs, then execute, neither as a dry
\* run, and in these runs nothing fails.
DailyNotify ==
    /\ run.mode = "none"
    /\ IF rev = "nagbot" THEN Nagbot_notify(NoFailure) ELSE notify(FALSE, NoFailure)
    /\ UNCHANGED process

DailyExecute ==
    /\ run.mode = "notify"
    /\ IF rev = "nagbot" THEN Nagbot_execute(NoFailure) ELSE execute(FALSE, NoFailure)
    /\ UNCHANGED process

DailyNextDay == run.mode = "execute" /\ NextDay

NextDaily == DailyNotify \/ DailyExecute \/ DailyNextDay

\* The jobs are scheduled: whichever is due does run.
SpecDaily == Init /\ [][NextDaily]_vars /\ WF_vars(NextDaily)

\* --------------------------------------------------------------- the owner
\* The owner of a resource that was warned moves the date of its
\* 'Terminate after' tag to a later day, leaving the rest of the value as it
\* is or writing the new date alone.
OwnerMovesExpiry ==
    /\ \E i \in Ids, d \in Days, keep \in BOOLEAN :
          LET tag == ec2[i].terminate_after
              parsed_date == parse_date_tag(tag)
          IN  /\ ec2[i].ec2_type \in {"instance", "volume"}
              /\ ec2[i].state \notin {"terminated", "deleted"}
              /\ parsed_date.expiry_date # None /\ parsed_date.warning_date # None
              /\ Head(tag) = Tok("date", parsed_date.expiry_date)
              /\ d > parsed_date.expiry_date
              /\ ec2' = [ec2 EXCEPT ![i].terminate_after =
                            <<Tok("date", d)>> \o (IF keep THEN Tail(tag) ELSE <<>>)]
    /\ UNCHANGED <<clock, rev, run, notify_warned, pristine, process>>
    /\ UNCHANGED policy_vars
    /\ UNCHANGED platform_vars

NextOwner == DailyNotify \/ DailyExecute \/ DailyNextDay \/ OwnerMovesExpiry

SpecOwner == Init /\ [][NextOwner]_vars

\* ------------------------------------------------------------------- main
\* A channel name as the characters it is made of: "#", a letter ("a"), a
\* digit ("0"), "-" and a blank.
Channels ==
    {<<"#", "a">>, <<"#", "a", "-", "0">>, <<"a">>, <<"#">>, <<"#", "a", " ">>}

\* re.fullmatch(r'#[A-Za-z0-9-]+', channel) is not None
fullmatch_channel(channel) ==
    /\ Len(channel) >= 2
    /\ channel[1] = "#"
    /\ \A j \in 2..Len(channel) : channel[j] \in {"a", "0", "-"}

\* The mode argument: the documented words, one of them in capitals, and a
\* word no revision knows.
Modes == {"tag_instances", "notify", "execute", "NOTIFY", "report"}

\* mode.lower()
lower(mode) == IF mode = "NOTIFY" THEN "notify" ELSE mode

\* The modes the help text of the mode argument names.
DocumentedModes ==
    IF rev = "nagbot" THEN {"tag_instances", "notify", "execute"} ELSE {"notify", "execute"}

\* nagbot.py
AUTO_STOP_AFTER_DAYS == 3

AUTO_TERMINATE_AFTER_DAYS == 14

AUTO_STOP_AFTER_DAY_YYYY_MM_DD == clock + AUTO_STOP_AFTER_DAYS

AUTO_TERMINATE_AFTER_DAY_YYYY_MM_DD == clock + AUTO_TERMINATE_AFTER_DAYS

\* Instance.is_stop_after_tag_missing / is_terminate_after_tag_missing of the
\* sqaws module nagbot.py 1.7.0 was written for: the instance has no such tag.
is_stop_after_tag_missing(instance) == instance.stop_after = <<>>

is_terminate_after_tag_missing(instance) == instance.terminate_after = <<>>

get_taggable_instances(instances) ==
    SelectSeq(instances, LAMBDA i :
        /\ ~is_whitelisted(ec2[i])
        /\ (is_stop_after_tag_missing(ec2[i]) \/ is_terminate_after_tag_missing(ec2[i])))

\* The create_tags calls of tag_instance(i); the second is not made when the
\* first raises.
tag_instance(i, ok) ==
    LET stop == IF is_stop_after_tag_missing(ec2[i]) THEN <<Call("create_tags", i, ok)>> ELSE <<>>
        term == IF is_terminate_after_tag_missing(ec2[i]) THEN <<Call("create_tags", i, ok)>> ELSE <<>>
    IN  IF ok THEN stop \o term ELSE SubSeq(stop \o term, 1, 1)

RECURSIVE Flatten(_)
Flatten(seqs) == IF seqs = <<>> THEN <<>> ELSE Head(seqs) \o Flatten(Tail(seqs))

\* ---- nagbot.py: Nagbot.tag_instances
Nagbot_tag_instances(f) ==
    IF f.enum
    THEN Finish("tag_instances", FALSE, f, "Exception", <<>>, <<>>, ec2, {})
    ELSE
    LET instances_to_tag == get_taggable_instances(describe_instances)
        k == FirstFailure(instances_to_tag, f.tag)
        raised == k <= Len(instances_to_tag)
        tagged == Range(Prefix(instances_to_tag, k - 1))
        calls == Flatten([j \in 1..Len(Prefix(instances_to_tag, k)) |->
                            tag_instance(instances_to_tag[j], instances_to_tag[j] \notin f.tag)])
        new_ec2 == [i \in Ids |->
            IF i \in tagged
            THEN [ec2[i] EXCEPT
                    !.stop_after = IF is_stop_after_tag_missing(ec2[i])
                                   THEN <<Tok("date", AUTO_STOP_AFTER_DAY_YYYY_MM_DD)>> ELSE @,
                    !.terminate_after = IF is_terminate_after_tag_missing(ec2[i])
                                        THEN <<Tok("date", AUTO_TERMINATE_AFTER_DAY_YYYY_MM_DD)>> ELSE @]
            ELSE ec2[i]]
    IN  Finish("tag_instances", FALSE, f,
               IF raised THEN "Exception" ELSE IF f.slack THEN "SendError" ELSE "",
               IF raised \/ f.slack THEN <<>> ELSE <<Msg("tag", instances_to_tag)>>,
               calls, new_ec2, {})

\* How the process ends: sys.exit(1) and an exception that leaves main both
\* give status 1, a main that returns gives 0.
Exit(channel, mode, dryrun, exit_status) ==
    process' = [done |-> TRUE, channel |-> channel, mode |-> mode, dryrun |-> dryrun,
                exit_status |-> exit_status]

\* main exits before it has made a Nagbot.
ExitAtOnce(channel, mode, dryrun) ==
    /\ Exit(channel, mode, dryrun, 1)
    /\ UNCHANGED <<clock, rev, ec2, run, notify_warned, pristine>>
    /\ UNCHANGED policy_vars
    /\ UNCHANGED platform_vars

\* ---- nagbot.py: main.  The test of 'tag_instances' is an if of its own:
\* the if / elif / else on 'notify' and 'execute' that follows it ends in
\* sys.exit(1) for every other mode, 'tag_instances' included.
Nagbot_main(channel, mode, f) ==
    IF ~fullmatch_channel(channel)
    THEN ExitAtOnce(channel, mode, FALSE)
    ELSE CASE lower(mode) = "tag_instances" ->
                /\ f.op = {} /\ ~f.report
                /\ Nagbot_tag_instances(f)
                /\ Exit(channel, mode, FALSE, 1)
           [] lower(mode) = "notify" ->
                /\ f.op = {}
                /\ Nagbot_notify(f)
                /\ Exit(channel, mode, FALSE, IF run'.raised = "" THEN 0 ELSE 1)
           [] lower(mode) = "execute" ->
                /\ ~f.report
                /\ Nagbot_execute(f)
                /\ Exit(channel, mode, FALSE, IF run'.raised = "" THEN 0 ELSE 1)
           [] OTHER -> f = NoFailure /\ ExitAtOnce(channel, mode, FALSE)

\* ---- new_nagbot.py: main
main(channel, mode, dryrun, f) ==
    IF ~fullmatch_channel(channel)
    THEN ExitAtOnce(channel, mode, dryrun)
    ELSE CASE lower(mode) = "notify" ->
                /\ f.op = {}
                /\ notify(dryrun, f)
                /\ Exit(channel, mode, dryrun, IF run'.raised = "" THEN 0 ELSE 1)
           [] lower(mode) = "execute" ->
                /\ ~f.report
                /\ execute(dryrun, f)
                /\ Exit(channel, mode, dryrun, IF run'.raised = "" THEN 0 ELSE 1)
           [] OTHER -> f = NoFailure /\ ExitAtOnce(channel, mode, dryrun)

\* The accounts main is started on: those of Init, on the first day and on
\* the day the lead time of a warning of the first day is over.
InitMain ==
    /\ clock \in {0, TERMINATION_WARNING_DAYS}
    /\ \/ /\ rev = "nagbot"
          /\ ec2 \in [Ids -> {i \in InitInstances : i.eks_nodegroup_name = <<>>} \cup {Absent}]
       \/ /\ rev = "new_nagbot"
          /\ ec2 \in [Ids -> InitInstances \cup InitVolumes \cup {Absent}]
    /\ run = NoRun
    /\ process = NoProcess
    /\ notify_warned = [i \in Ids |-> {}]
    /\ pristine = {i \in Ids : /\ parse_date_tag(ec2[i].stop_after).warning_date = None
                               /\ parse_date_tag(ec2[i].terminate_after).warning_date = None}
    /\ resource = Absent /\ today_date = 0 /\ is_weekend = FALSE /\ result = NoResult
    /\ strftime_pads_year = FALSE

\* python -m app.nagbot <mode> -c <channel>
NagbotMain ==
    /\ rev = "nagbot" /\ ~process.done
    /\ \E channel \in Channels, mode \in Modes, f \in Failures :
         (fullmatch_channel(channel) \/ f = NoFailure) /\ CanFail(f, FALSE)
         /\ Nagbot_main(channel, mode, f)

\* python -m app.new_nagbot <mode> -c <channel> [--dryrun]
NewNagbotMain ==
    /\ rev = "new_nagbot" /\ ~process.done
    /\ \E channel \in Channels, mode \in Modes, dryrun \in BOOLEAN, f \in Failures :
         (fullmatch_channel(channel) \/ f = NoFailure) /\ CanFail(f, dryrun)
         /\ main(channel, mode, dryrun, f)

NextMain == NagbotMain \/ NewNagbotMain

SpecMain == InitMain /\ [][NextMain]_vars


\* ================================================================== claims
\* What the two tags of the evaluated resource carry.
StopTag == parse_date_tag(resource.stop_after)

TermTag == parse_date_tag(resource.terminate_after)

IsInstance == resource.ec2_type = "instance"

C4_Original_SafeToStopNeedsThreeDays ==
    (result.done /\ IsInstance /\ result.sqaws_is_stoppable /\ StopTag.warning_date # None) =>
        (result.sqaws_is_safe_to_stop
            <=> StopTag.warning_date <= today_date - TERMINATION_WARNING_DAYS)

\* C4 as amended: for a running instance whose stop-after tag is due,
\* is-safe-to-stop (sqaws.py, new_sqaws.py, nagbot.py) is false while the
\* tag's warning date is later than today and true once the warning date is
\* today or earlier, in particular right after notify wrote a warning dated
\* today.
C4_SafeToStopOnceWarned ==
    (result.done /\ IsInstance /\ StopTag.warning_date # None) =>
        /\ result.sqaws_is_stoppable =>
              (result.sqaws_is_safe_to_stop <=> StopTag.warning_date <= today_date)
        /\ result.new_is_stoppable =>
              (result.new_is_safe_to_stop <=> StopTag.warning_date <= today_date)
        /\ result.nagbot_is_stoppable =>
              (result.nagbot_is_safe_to_stop <=> StopTag.warning_date <= today_date)

\* A due instance warned one day ago (less than 3 days) was found safe to stop.
C4_Witness ==
    /\ result.done /\ IsInstance /\ result.sqaws_is_stoppable
    /\ StopTag.warning_date = today_date - 1
    /\ result.sqaws_is_safe_to_stop

\* The stop-after tag is a past date, today's date, free text that is no
\* schedule, or 'On Weekends' evaluated on a weekend.
C5_StoppableTag ==
    LET t == resource.stop_after
    IN  /\ Len(t) > 0
        /\ \/ t[1].k = "date" /\ t[1].d <= today_date
           \/ t[1].k \in {"text", "baddate"}
           \/ t[1].k \in {"onw", "onwci"} /\ is_weekend

\* C5: a running instance whose stop-after tag is stoppable and carries a
\* warning dated today is safe to stop on that same day.
C5_WarnedTodayIsSafeToStopToday ==
    (/\ result.done /\ IsInstance /\ resource.state = "running"
     /\ C5_StoppableTag
     /\ resource.stop_after[Len(resource.stop_after)] = Tok("warn", today_date))
        => (result.sqaws_is_safe_to_stop /\ result.new_is_safe_to_stop)

\* An instance tagged 'On Weekends', warned today, evaluated on a weekend.
C5_Witness ==
    /\ result.done /\ IsInstance /\ resource.state = "running"
    /\ resource.stop_after = <<Tok("onw", 0), Tok("sp", 0), Tok("warn", today_date)>>
    /\ is_weekend
    /\ result.sqaws_is_safe_to_stop /\ result.new_is_safe_to_stop

\* C6: is-safe-to-stop is false for every instance whose stop-after tag
\* carries no warning date, in every revision.
C6_NeverSafeToStopWithoutWarning ==
    (result.done /\ IsInstance /\ StopTag.warning_date = None) =>
        /\ ~result.sqaws_is_safe_to_stop
        /\ ~result.new_is_safe_to_stop
        /\ ~result.nagbot_is_safe_to_stop
        /\ ~result.is_safe_to_stop_raises
        /\ ~result.is_safe_to_stop

\* C7: is-safe-to-stop implies is-stoppable (can-be-stopped) and
\* is-safe-to-terminate implies is-terminatable (can-be-terminated), for
\* every resource kind and every input.
C7_SafeImpliesDue ==
    result.done =>
        /\ result.sqaws_is_safe_to_stop => result.sqaws_is_stoppable
        /\ result.sqaws_is_safe_to_terminate => result.sqaws_is_terminatable
        /\ result.new_is_safe_to_stop => result.new_is_stoppable
        /\ result.new_is_safe_to_terminate => result.new_is_terminatable
        /\ result.nagbot_is_safe_to_stop => result.nagbot_is_stoppable
        /\ result.nagbot_is_safe_to_terminate => result.nagbot_is_terminatable
        /\ result.is_safe_to_stop => result.can_be_stopped
        /\ result.is_safe_to_terminate_after_warning => result.can_be_terminated

\* The evaluated resource was found safe to stop, or safe to terminate, by
\* sqaws.py and by its own class.
C7_Witness ==
    /\ result.done
    /\ \/ result.sqaws_is_safe_to_stop /\ result.is_safe_to_stop
       \/ result.sqaws_is_safe_to_terminate /\ result.is_safe_to_terminate_after_warning

\* C8: a snapshot with is_ami_snapshot or is_aws_backup_snapshot set has
\* can_be_terminated false and is_safe_to_terminate_after_warning false.
C8_ExcludedSnapshotNeverTerminatable ==
    (/\ result.done /\ resource.ec2_type = "snapshot"
     /\ (resource.is_ami_snapshot \/ resource.is_aws_backup_snapshot))
        => (~result.can_be_terminated /\ ~result.is_safe_to_terminate_after_warning)

\* An AMI snapshot, completed, past due and warned 3 days ago, was evaluated.
C8_Witness ==
    /\ result.done /\ resource.ec2_type = "snapshot"
    /\ resource.is_ami_snapshot /\ ~resource.is_aws_backup_snapshot
    /\ resource.state = "completed"
    /\ has_date_passed(TermTag.expiry_date, today_date)
    /\ TermTag.warning_date # None
    /\ TermTag.warning_date <= today_date - TERMINATION_WARNING_DAYS
    /\ ~result.can_be_terminated

\* C10: is_stoppable(instance, today, is_weekend) is true exactly when state
\* is 'running' and ((on-weekends and is_weekend) or (no expiry date and no
\* on-weekends flag) or (an expiry date is set and today >= expiry)).
C10_StoppableExactlyWhen ==
    (result.done /\ IsInstance) =>
        (result.sqaws_is_stoppable <=>
            /\ resource.state = "running"
            /\ \/ StopTag.on_weekends /\ is_weekend
               \/ StopTag.expiry_date = None /\ ~StopTag.on_weekends
               \/ StopTag.expiry_date # None /\ today_date >= StopTag.expiry_date)

\* A running instance tagged 'On Weekends' was found not stoppable on a
\* non-weekend day.
C10_Witness ==
    /\ result.done /\ IsInstance /\ resource.state = "running"
    /\ StopTag.on_weekends /\ ~is_weekend
    /\ ~result.sqaws_is_stoppable

\* ---- claims about the runs
\* The calls a run made on resource i.
CallsOn(i) == {j \in 1..Len(run.calls) : run.calls[j].id = i}

Destroys == {"terminate_instances", "delete_volume"}

\* C1: starting from tags without a warning and with only notify writing
\* warnings, execute issues a terminate/delete call for a resource on day D
\* only if a notify run on some day W <= D - 3 wrote a warning into that
\* resource's terminate-after tag.
C1_TerminateOnlyThreeDaysAfterNotifyWarned ==
    \A i \in pristine :
        (run.mode = "execute" /\ \E j \in CallsOn(i) : run.calls[j].op \in Destroys)
            => \E W \in notify_warned[i] : W <= clock - TERMINATION_WARNING_DAYS

\* execute terminated an instance whose tags started without a warning.
C1_Witness ==
    \E i \in pristine :
        /\ run.mode = "execute"
        /\ \E j \in CallsOn(i) : run.calls[j].op = "terminate_instances" /\ run.calls[j].ok
        /\ ec2[i].state = "terminated"
        /\ notify_warned[i] # {}

\* is-safe-to-stop / is-safe-to-terminate of the deployed revision, on the
\* state and tags r that the run enumerated.
SafeToStop(r) ==
    IF rev = "nagbot" THEN is_safe_to_stop(r)
    ELSE new_sqaws_Instance_is_safe_to_stop(r, TODAY_IS_WEEKEND)

SafeToTerminate(r) ==
    IF rev = "nagbot" THEN is_safe_to_terminate(r)
    ELSE IF r.ec2_type = "volume" THEN new_sqaws_Volume_is_safe_to_terminate(r)
    ELSE new_sqaws_Instance_is_safe_to_terminate(r)

\* C2: in every execute run each resource on which a stop call is issued
\* satisfies is-safe-to-stop and each resource on which a terminate/delete
\* call is issued satisfies is-safe-to-terminate, both evaluated on the
\* state and tags the run enumerated (ec2 before the run); no such call is
\* issued on any other resource, and the only other call is the tag written
\* on an instance right after its stop call.
C2_ExecuteActsOnlyOnSafeResources ==
    [][run'.mode = "execute" =>
        \A j \in 1..Len(run'.calls) :
            LET c == run'.calls[j]
            IN  /\ c.op = "stop_instances" =>
                    ec2[c.id].ec2_type = "instance" /\ SafeToStop(ec2[c.id])
                /\ c.op \in Destroys => SafeToTerminate(ec2[c.id])
                /\ c.op \notin Destroys \cup {"stop_instances"} =>
                    /\ c.op = "create_tags" /\ j > 1
                    /\ run'.calls[j - 1].op = "stop_instances"
                    /\ run'.calls[j - 1].id = c.id]_vars

\* One execute run terminated one instance and stopped another.
C2_Witness ==
    /\ run.mode = "execute"
    /\ \E j \in 1..Len(run.calls) : run.calls[j].op = "terminate_instances" /\ run.calls[j].ok
    /\ \E j \in 1..Len(run.calls) : run.calls[j].op = "stop_instances" /\ run.calls[j].ok

TermDue == TermTag.expiry_date # None /\ today_date >= TermTag.expiry_date

Friday == 4

Saturday == 5

Sunday == 6

\* C12 as stated: the is-weekend flag that makes an 'On Weekends' stop
\* schedule due is true exactly on Saturday and Sunday and false on Monday
\* through Friday.
C12_Original_WeekendIsSaturdaySunday ==
    result.done => (result.today_is_weekend <=> weekday(clock) \in {Saturday, Sunday})

\* C12 as amended: the is-weekend flag is true exactly on Friday, Saturday
\* and Sunday and false on Monday through Thursday.
C12_WeekendIsFridayToSunday ==
    result.done => (result.today_is_weekend <=> weekday(clock) \in {Friday, Saturday, Sunday})

\* The process ran on a Friday and its flag was true.
C12_Witness ==
    result.done /\ weekday(clock) = Friday /\ result.today_is_weekend

\* ------------------------------------------- claims about parsing (C13-C15)
Parsed == result.done /\ result.op = "parse_date_tag"

Warned == result.done /\ result.op = "add_warning_to_tag"

\* The tag text ends in a warning marker around a date-shaped text.
EndsInMarker(date_tag) ==
    /\ Len(date_tag) > 0
    /\ date_tag[Len(date_tag)].k \in {"warn", "warnbad"}
    /\ matches_date(date_tag[Len(date_tag)])

\* The tag text starts with a calendar date.
StartsWithDate(date_tag) ==
    Len(date_tag) > 0 /\ date_tag[1].k = "date" /\ matches_date(date_tag[1])

\* C13: parse_date_tag returns a ParsedDate for every input and never raises,
\* also when the leading date or the date inside the warning marker is not a
\* calendar date; a field whose token is missing or invalid is unset.
C13_ParseNeverRaises ==
    Parsed =>
        /\ ~result.raises
        /\ ~StartsWithDate(resource.date_tag) => result.parsed_date.expiry_date = None
        /\ ~parse_on_weekends(resource.date_tag) => ~result.parsed_date.on_weekends
        /\ (~EndsInMarker(resource.date_tag)
                \/ resource.date_tag[Len(resource.date_tag)].k = "warnbad")
             => result.parsed_date.warning_date = None

\* C14: for every printable s, parse_date_tag(str(parse_date_tag(s))) equals
\* parse_date_tag(s): the same expiry date, on-weekends flag and warning date.
C14_ReparseIsStable ==
    Parsed /\ ~result.raises =>
        /\ ~result.reparse_raises
        /\ result.reparsed = result.parsed_date

\* C15: add_warning_to_tag(raw, today, replace=False) leaves the warning date
\* unchanged when raw already carries one, so that applying it twice equals
\* applying it once, and sets it to today when raw carries none;
\* add_warning_to_tag(raw, today, replace=True) always yields a tag whose
\* warning date is today.
C15_AddWarningKeepsOrSetsToday ==
    Warned =>
        /\ ~result.raises
        /\ resource.replace => parse_warning_date(result.once) = TODAY_YYYY_MM_DD
        /\ (~resource.replace /\ ~EndsInMarker(resource.date_tag))
             => parse_warning_date(result.once) = TODAY_YYYY_MM_DD
        /\ (~resource.replace /\ EndsInMarker(resource.date_tag))
             => /\ result.once[Len(result.once)] = resource.date_tag[Len(resource.date_tag)]
                /\ ~result.twice_raises
                /\ result.twice = result.once

\* -------------------------------------------------- claims about runs (C16-C20)
\* The messages the channel holds once notify / execute has dealt with the
\* outcome o of its internal method.
Sent(f, o) == Delivered(f, o.raised, o.msgs)

DryRunStep == run'.mode \in {"notify", "execute"} /\ run'.dryrun

\* C16: with dryrun set, notify and execute issue no tag-write, stop,
\* terminate, delete or deregister call and leave the provider's state as it
\* was, while selecting the same resources and sending the same messages as a
\* non-dry run over the same enumeration (whose provider calls succeed).
C16_DryRunIssuesNoCallAndSendsTheSame ==
    [][DryRunStep =>
        /\ run'.calls = <<>>
        /\ ec2' = ec2
        /\ LET f == run'.failure
               o == IF run'.mode = "notify" THEN notify_internal(FALSE, f)
                    ELSE execute_internal(FALSE, f)
           IN  run'.raised = o.raised /\ run'.msgs = Sent(f, o)]_vars

\* A dry run of notify has listed a volume as due for deletion and returned
\* without a call; the same day's real run writes the volume's warning.
C16_Witness ==
    /\ run.mode = "notify" /\ run.dryrun /\ run.raised = ""
    /\ \E j \in 1..Len(run.msgs) : run.msgs[j].kind = "delete" /\ Len(run.msgs[j].ids) > 0
    /\ run.calls = <<>>
    /\ Len(notify_internal(FALSE, NoFailure).calls) > 0

\* The resources execute selects for termination or deletion in this state.
TerminateEligible ==
    IF rev = "nagbot" THEN Range(Nagbot_instances_to_terminate)
    ELSE {i \in Ids :
            \/ /\ ec2[i].ec2_type = "instance"
               /\ new_sqaws_Instance_is_terminatable(ec2[i])
               /\ new_sqaws_Instance_is_safe_to_terminate(ec2[i])
            \/ /\ ec2[i].ec2_type = "volume" /\ ec2[i].state # "deleted"
               /\ new_sqaws_Volume_is_terminatable(ec2[i])
               /\ new_sqaws_Volume_is_safe_to_terminate(ec2[i])}

TerminateCalls(calls) ==
    {j \in 1..Len(calls) : calls[j].op \in {"terminate_instances", "delete_volume"}}

\* C17: when execute has several terminate-eligible resources and the
\* provider call fails for one of them (nothing else goes wrong), every
\* eligible resource is still attempted, the outgoing messages contain exactly
\* one failure line, for the failed resource, and execute does not raise.
C17_PartialFailureIsAttemptedAndReported ==
    [][(/\ run'.mode = "execute" /\ ~run'.dryrun /\ run'.raised \notin {"Exception", "SendError"}
        /\ Cardinality(TerminateEligible) >= 2)
       => /\ run'.raised = ""
          /\ \A i \in TerminateEligible :
                \E j \in TerminateCalls(run'.calls) : run'.calls[j].id = i
          /\ UNION {FailureLines(run'.msgs[j]) : j \in 1..Len(run'.msgs)}
                = {run'.calls[j].id : j \in {k \in TerminateCalls(run'.calls) : ~run'.calls[k].ok}}]_vars

\* The resources notify selects for a warning in this state.
NotifyDue ==
    IF rev = "nagbot"
    THEN {i \in Range(describe_instances) :
            ~is_whitelisted(ec2[i]) /\ (is_terminatable(ec2[i]) \/ is_stoppable(ec2[i]))}
    ELSE {i \in Range(describe_volumes) : new_sqaws_Volume_is_terminatable(ec2[i])}

FailedTagWrites(calls) ==
    {calls[j].id : j \in {k \in 1..Len(calls) : calls[k].op = "create_tags" /\ ~calls[k].ok}}

\* C18: when the tag write for one resource fails during notify, the failure
\* is confined to that resource: the remaining due resources still get their
\* warning tag written and appear in the messages, and notify does not raise.
C18_TagWriteFailureIsConfined ==
    [][(run'.mode = "notify" /\ FailedTagWrites(run'.calls) # {})
       => /\ run'.raised = ""
          /\ \A i \in NotifyDue \ FailedTagWrites(run'.calls) :
                /\ \E j \in 1..Len(run'.calls) :
                      run'.calls[j] = Call("create_tags", i, TRUE)
                /\ \E j \in 1..Len(run'.msgs) :
                      /\ run'.msgs[j].kind \in {"terminate", "stop", "delete"}
                      /\ i \in Range(run'.msgs[j].ids)]_vars

Ran == run.mode \in {"notify", "execute"}

\* The last message of the run is the failure notification.
FailureNotified ==
    Len(run.msgs) > 0 /\ run.msgs[Len(run.msgs)].kind = "failure"

\* C19 as stated: when the enumeration fails, or the reporting or the
\* notification collaborator throws, the exception is caught at the top of
\* notify / execute, a failure notification is sent and the exception is
\* re-raised; when the enumeration fails the run makes no provider call.
C19_Original_EveryCollaboratorFailureIsFatal ==
    (Ran /\ (run.failure.enum \/ run.failure.report \/ run.failure.slack))
        => /\ run.raised # ""
           /\ FailureNotified
           /\ run.failure.enum => run.calls = <<>>

\* C19: when the enumeration fails, the run makes no provider call, the
\* exception is caught at the top of notify / execute, the failure
\* notification is sent and the exception is re-raised; when send_message
\* throws, the run ends with an exception, and with the failure notification
\* when it was the internal method's send that threw; when the spreadsheet
\* write throws, notify_internal swallows the exception: the summary and the
\* other messages are sent, no failure notification is, and notify returns.
C19_EnumerationAndSendFailuresAreFatalReportFailureIsNot ==
    Ran =>
        /\ run.failure.enum =>
              run.raised # "" /\ FailureNotified /\ run.calls = <<>>
        /\ run.failure.slack =>
              run.raised # "" /\ (run.raised = "SendError" => FailureNotified)
        /\ run.failure.report =>
              /\ run.raised = "" /\ ~FailureNotified
              /\ Len(run.msgs) >= 3 /\ run.msgs[1].kind = "summary"

\* A notify run in which the spreadsheet write threw has sent its messages,
\* the one on instances to stop among them, and returned.
C19_Witness ==
    /\ run.mode = "notify" /\ run.failure.report /\ run.raised = ""
    /\ \E j \in 1..Len(run.msgs) : run.msgs[j].kind = "stop"

\* The (resource kind, action) pairs a revision handles, by the name of their
\* message: instances/terminate, instances/stop, volumes/delete.
Pairs == IF rev = "nagbot" THEN {"terminate", "stop"} ELSE {"terminate", "stop", "delete"}

MessagesOn(kind) == {j \in 1..Len(run.msgs) : run.msgs[j].kind = kind}

\* C20: every notify or execute run that completes without raising has sent
\* exactly one outcome message for each pair it handles, the nothing-to-do
\* message when that pair's list is empty, and no failure notification.
C20_OneOutcomeMessagePerPair ==
    (Ran /\ run.raised = "") =>
        /\ \A kind \in Pairs : Cardinality(MessagesOn(kind)) = 1
        /\ MessagesOn("failure") = {}

\* A notify run has returned after telling the channel that no instance is
\* due to be terminated and which volume is due to be deleted.
C20_Witness ==
    /\ run.mode = "notify" /\ run.raised = "" /\ rev = "new_nagbot"
    /\ \E j \in MessagesOn("terminate") : run.msgs[j].ids = <<>>
    /\ \E j \in MessagesOn("delete") : run.msgs[j].ids # <<>>

\* ----------------------------------------------------- claims about main (C21)
\* C21: main exits with status 1, before it has enumerated a resource or sent
\* a message, when the channel is not '#' followed by letters, digits or '-'
\* or when the mode is none of the documented ones; for a valid channel and a
\* documented mode it runs that mode and does not exit with status 1, even
\* when a provider call on a resource failed.
C21_ExitStatusOneOnlyForBadArguments ==
    process.done =>
        IF fullmatch_channel(process.channel) /\ lower(process.mode) \in DocumentedModes
        THEN /\ run.mode = lower(process.mode)
             /\ (~run.failure.enum /\ ~run.failure.slack) => process.exit_status # 1
        ELSE process.exit_status = 1 /\ run = NoRun

\* --------------------------------------------- claims about the schedule (C30)
\* C30: add_warning_to_tag never changes the schedule: for every tag it
\* accepts and both values of replace, the expiry date and the on-weekends
\* flag parsed from the tag it returns are those parsed from the tag it was
\* given.
C30_AddWarningKeepsTheSchedule ==
    (result.done /\ result.op = "add_warning_to_tag" /\ ~result.raises) =>
        /\ ~parse_date_tag_raises(result.once)
        /\ parse_date_tag(result.once).expiry_date = parse_date_tag(resource.date_tag).expiry_date
        /\ parse_date_tag(result.once).on_weekends = parse_date_tag(resource.date_tag).on_weekends

\* The schedule is kept for every tag whose expiry date is of a year that
\* strftime writes with four digits.
C30_ScheduleKeptFromYear1000 ==
    (result.done /\ result.op = "add_warning_to_tag" /\ ~result.raises
        /\ (resource.date_tag = <<>> \/ Head(resource.date_tag) # Tok("date", Year999))) =>
        /\ ~parse_date_tag_raises(result.once)
        /\ parse_date_tag(result.once).expiry_date = parse_date_tag(resource.date_tag).expiry_date
        /\ parse_date_tag(result.once).on_weekends = parse_date_tag(resource.date_tag).on_weekends

\* ------------------------------------------- claims about the other kinds (C24)
\* C24: for volumes, snapshots and images, is-stoppable (can-be-stopped) and
\* is-safe-to-stop are false whatever the state, the tags, the warning date,
\* today and the weekend flag.
C24_OnlyInstancesCanBeStopped ==
    (result.done /\ resource.ec2_type # "instance") =>
        /\ ~result.sqaws_is_stoppable /\ ~result.sqaws_is_safe_to_stop
        /\ ~result.can_be_stopped /\ ~result.is_safe_to_stop

\* A volume whose 'Stop after' date has passed and was warned about before
\* today, the case in which an instance would be safe to stop.
C24_Witness ==
    /\ result.done /\ resource.ec2_type = "volume"
    /\ parse_date_tag(resource.stop_after).expiry_date \in 0..today_date
    /\ parse_date_tag(resource.stop_after).warning_date \in 0..(today_date - 1)
    /\ ~result.sqaws_is_safe_to_stop

\* ------------------------------------------------ claims about tag names (C22)
\* The key is one of the resource's and matches the rule for that name.
FoundName(name, prefix, word) ==
    /\ \E j \in 1..Len(resource.tags) : resource.tags[j] = name
    /\ startswith(name, prefix) /\ contains(name, word)

\* No key of the resource matches the rule.
NoneMatches(prefix, word) ==
    \A j \in 1..Len(resource.tags) :
        ~(startswith(resource.tags[j], prefix) /\ contains(resource.tags[j], word))

\* C22: get_tag_names returns, for each of stop-after, terminate-after and
\* nagbot-state, a key of the resource's tags that matches case-insensitively
\* (starts with 'stop' / 'terminate' / 'nagbot' and contains 'after' /
\* 'state'), or the default 'StopAfter' / 'TerminateAfter' / 'NagbotState'
\* when no key matches; notify and execute pass to set_tag exactly the name
\* found for that resource.
C22_TagNamesFoundOrDefaultAndUsed ==
    result.done =>
        /\ \/ FoundName(result.names.stop_after_tag_name, "stop", "after")
           \/ NoneMatches("stop", "after")
                /\ result.names.stop_after_tag_name = <<"Stop", "After">>
        /\ \/ FoundName(result.names.terminate_after_tag_name, "terminate", "after")
           \/ NoneMatches("terminate", "after")
                /\ result.names.terminate_after_tag_name = <<"Terminate", "After">>
        /\ \/ FoundName(result.names.nagbot_state_tag_name, "nagbot", "state")
           \/ NoneMatches("nagbot", "state")
                /\ result.names.nagbot_state_tag_name = <<"Nagbot", "State">>
        /\ result.notify_terminate = result.names.terminate_after_tag_name
        /\ resource.ec2_type = "instance" =>
              /\ result.notify_stop = result.names.stop_after_tag_name
              /\ result.execute_state = result.names.nagbot_state_tag_name

\* An instance tagged 'stop after' and 'STOP_AFTER', but with no
\* terminate-after tag: one of its own keys is used for the stop warning and
\* the default name for the terminate warning.
C22_Witness ==
    /\ result.done /\ resource.ec2_type = "instance"
    /\ Len(resource.tags) = 3
    /\ result.notify_stop = <<"STOP", "_", "AFTER">>
    /\ resource.tags[1] = <<"stop", " ", "after">>
    /\ result.notify_terminate = <<"Terminate", "After">>
    /\ NoneMatches("terminate", "after")

\* ------------------------------------------- claims about deleting (C23, C29)
\* C23: Snapshot.terminate_resource returns a truthy value when the
\* provider's delete call succeeds and a falsy value when the delete call
\* raises, and it never lets the provider's exception out.
C23_SnapshotDeleteResultTellsSuccess ==
    (result.done /\ result.op = "Snapshot.terminate_resource" /\ ~resource.dryrun) =>
        /\ ~result.out.raised
        /\ truthy(result.out.returned) <=> ec2.delete[resource.snapshot_ids[1]] = "ok"

\* The exception of the provider never leaves Snapshot.terminate_resource.
C23_SnapshotDeleteNeverRaises ==
    (result.done /\ result.op = "Snapshot.terminate_resource") => ~result.out.raised

\* The calls of the run, by operation.
DeleteCalls == SelectSeq(result.out.calls, LAMBDA c : c.op = "delete")

\* C29: Ami.terminate_resource deletes the snapshots of the image only after
\* deregister succeeded.  If deregister raises, no delete is attempted and the
\* result is False; if deregister succeeds, a delete is attempted for every
\* snapshot id, in order, also after an earlier delete failed, and the result
\* is True exactly when every delete succeeded.
C29_SnapshotsDeletedOnlyAfterDeregister ==
    (result.done /\ result.op = "Ami.terminate_resource" /\ ~resource.dryrun) =>
        /\ ~result.out.raised
        /\ result.out.calls # <<>> /\ result.out.calls[1].op = "deregister"
        /\ \A j \in 2..Len(result.out.calls) : result.out.calls[j].op = "delete"
        /\ IF ec2.deregister # "ok"
           THEN DeleteCalls = <<>> /\ result.out.returned = PyBool(FALSE)
           ELSE /\ [j \in 1..Len(DeleteCalls) |-> DeleteCalls[j].id] = resource.snapshot_ids
                /\ \A j \in 1..Len(DeleteCalls) :
                      DeleteCalls[j].ok <=> ec2.delete[DeleteCalls[j].id] = "ok"
                /\ result.out.returned =
                      PyBool(\A id \in DOMAIN ec2.delete : ec2.delete[id] = "ok")

\* An image of three snapshots is deregistered, the delete of the first
\* snapshot fails, the other two are deleted all the same, and False is
\* returned.
C29_Witness ==
    /\ result.done /\ result.op = "Ami.terminate_resource" /\ ~resource.dryrun
    /\ ec2.deregister = "ok"
    /\ Len(resource.snapshot_ids) = 3
    /\ ec2.delete[1] # "ok" /\ ec2.delete[2] = "ok" /\ ec2.delete[3] = "ok"
    /\ Len(DeleteCalls) = 3
    /\ result.out.returned = PyBool(FALSE)

\* -------------------------------------------- claims about warnings (C25-C28)
\* Instances the runs leave alone: whitelisted ones and those of a node group.
Exempt(r) == r.ec2_type = "instance" /\ (is_whitelisted(r) \/ Len(r.eks_nodegroup_name) > 0)

\* A running instance that is stoppable today, by the rule of the revision.
StoppableNow(r) ==
    /\ r.ec2_type = "instance" /\ r.state = "running" /\ ~Exempt(r)
    /\ IF rev = "nagbot" THEN is_stoppable(r)
       ELSE new_sqaws_Instance_is_stoppable(r, TODAY_IS_WEEKEND)

\* A resource that is terminatable today, by the rule of the revision.
TerminatableNow(r) ==
    \/ /\ r.ec2_type = "instance" /\ ~Exempt(r)
       /\ IF rev = "nagbot" THEN is_terminatable(r) ELSE new_sqaws_Instance_is_terminatable(r)
    \/ /\ r.ec2_type = "volume" /\ rev = "new_nagbot"
       /\ new_sqaws_Volume_is_terminatable(r)

\* A notify run that issued its calls, none of which failed, and returned.
NotifyStep ==
    /\ run'.mode = "notify" /\ ~run'.dryrun /\ run'.raised = ""
    /\ FailedTagWrites(run'.calls) = {}

\* The tag holds a warning after the step, dated today if it held none.
WarningLeft(before_tag, after_tag) ==
    /\ parse_date_tag(after_tag).warning_date # None
    /\ parse_date_tag(before_tag).warning_date = None =>
          parse_date_tag(after_tag).warning_date = TODAY_YYYY_MM_DD

ListedIn(kinds, i) ==
    \E j \in 1..Len(run'.msgs) : run'.msgs[j].kind \in kinds /\ i \in Range(run'.msgs[j].ids)

\* C25: a notify run that is no dry run leaves a warning in the stop-after
\* tag of every running instance that is stoppable and in the
\* terminate-after tag of every resource that is terminatable (dated today
\* when the tag had none), lists each of them in the message of its kind, and
\* writes no tag on a resource that is neither.
C25_NotifyWarnsEveryDueResourceAndNoOther ==
    [][NotifyStep =>
        \A i \in Ids :
            /\ StoppableNow(ec2[i]) =>
                  WarningLeft(ec2[i].stop_after, ec2'[i].stop_after) /\ ListedIn({"stop"}, i)
            /\ TerminatableNow(ec2[i]) =>
                  /\ WarningLeft(ec2[i].terminate_after, ec2'[i].terminate_after)
                  /\ ListedIn({"terminate", "delete"}, i)
            /\ (~StoppableNow(ec2[i]) /\ ~TerminatableNow(ec2[i])) =>
                  /\ ec2'[i] = ec2[i]
                  /\ \A j \in 1..Len(run'.calls) : run'.calls[j].id # i]_vars

\* The same, of nagbot.py alone.
C25_OfNagbot ==
    [][(rev = "nagbot" /\ NotifyStep) =>
        \A i \in Ids :
            /\ StoppableNow(ec2[i]) =>
                  WarningLeft(ec2[i].stop_after, ec2'[i].stop_after) /\ ListedIn({"stop"}, i)
            /\ TerminatableNow(ec2[i]) =>
                  /\ WarningLeft(ec2[i].terminate_after, ec2'[i].terminate_after)
                  /\ ListedIn({"terminate", "delete"}, i)
            /\ (~StoppableNow(ec2[i]) /\ ~TerminatableNow(ec2[i])) =>
                  /\ ec2'[i] = ec2[i]
                  /\ \A j \in 1..Len(run'.calls) : run'.calls[j].id # i]_vars

\* The same, of the volumes of new_nagbot.py alone.
C25_OfVolumes ==
    [][(rev = "new_nagbot" /\ NotifyStep) =>
        \A i \in Ids :
            /\ (ec2[i].ec2_type = "volume" /\ TerminatableNow(ec2[i])) =>
                  /\ WarningLeft(ec2[i].terminate_after, ec2'[i].terminate_after)
                  /\ ListedIn({"terminate", "delete"}, i)
            /\ (~StoppableNow(ec2[i]) /\ ~TerminatableNow(ec2[i])) =>
                  /\ ec2'[i] = ec2[i]
                  /\ \A j \in 1..Len(run'.calls) : run'.calls[j].id # i]_vars

\* The create_tags calls of an execute run that wrote the tag.
StoppedOnWrites == {j \in 1..Len(run.calls) : run.calls[j].op = "create_tags" /\ run.calls[j].ok}

\* C28: in execute, 'Stopped on <today>' is written to an instance only
\* after the stop call for that instance was issued and only when that stop
\* call succeeded: an instance whose stop call failed is not tagged as
\* stopped.
C28_StoppedOnTagOnlyAfterSuccessfulStop ==
    run.mode = "execute" =>
        \A j \in StoppedOnWrites :
            \E k \in 1..(j - 1) : run.calls[k] = Call("stop_instances", run.calls[j].id, TRUE)

\* The tag is written only after the stop call of the instance was issued.
C28_StoppedOnTagOnlyAfterStopIssued ==
    run.mode = "execute" =>
        \A j \in StoppedOnWrites :
            \E k \in 1..(j - 1) :
                run.calls[k].op = "stop_instances" /\ run.calls[k].id = run.calls[j].id

\* The resource is gone: the instance terminated, the volume deleted.
Gone(r) == r.state \in {"terminated", "deleted"}

\* The resource is terminatable and its terminate-after tag holds a warning
\* of day d, early enough for the lead time to elapse within the days modelled.
WarnedToTerminate(i, d) ==
    /\ TerminatableNow(ec2[i])
    /\ parse_date_tag(ec2[i].terminate_after).warning_date = d
    /\ d + TERMINATION_WARNING_DAYS <= MaxDay

\* C26: with notify and then execute run every day, nothing failing and
\* the tag touched by notify alone, a terminatable resource warned on day d
\* is terminated by execute no later than day d + 3: the later notify runs do
\* not postpone the termination by moving the warning date forward.
C26_WarnedResourceIsTerminatedWithinLeadTime ==
    \A i \in Ids : \A d \in Days :
        WarnedToTerminate(i, d) ~> (Gone(ec2[i]) /\ clock <= d + TERMINATION_WARNING_DAYS)

\* The same, of nagbot.py alone.
C26_OfNagbot ==
    \A i \in Ids : \A d \in Days :
        (rev = "nagbot" /\ WarnedToTerminate(i, d))
            ~> (Gone(ec2[i]) /\ clock <= d + TERMINATION_WARNING_DAYS)

\* An instance was terminated by nagbot.py on the third day after its warning.
C26_TerminatedOnTheThirdDay ==
    \E i \in Ids :
        /\ rev = "nagbot" /\ Gone(ec2[i]) /\ clock = TERMINATION_WARNING_DAYS
        /\ parse_date_tag(ec2[i].terminate_after).warning_date = 0

\* Once a terminate-after tag holds a warning, the daily runs keep its date.
C26_FirstWarningDateIsKept ==
    [][\A i \in Ids :
          parse_date_tag(ec2[i].terminate_after).warning_date # None =>
              parse_date_tag(ec2'[i].terminate_after).warning_date
                  = parse_date_tag(ec2[i].terminate_after).warning_date]_vars

\* The same, of nagbot.py alone.
C26_FirstWarningDateIsKeptByNagbot ==
    [][rev = "nagbot" =>
        \A i \in Ids :
          parse_date_tag(ec2[i].terminate_after).warning_date # None =>
              parse_date_tag(ec2'[i].terminate_after).warning_date
                  = parse_date_tag(ec2[i].terminate_after).warning_date]_vars

\* C27: when the owner of a warned resource moves its expiry to a later
\* date, the resource is not terminated on or after the new date until a
\* warning was recorded on or after that date and the lead time of 3 days has
\* elapsed again: a resource that has been terminated carries a warning that
\* is no older than its expiry date and at least 3 days old.
C27_TerminatedOnlyOnAWarningOfTheCurrentExpiry ==
    \A i \in Ids :
        Gone(ec2[i]) =>
            LET parsed_date == parse_date_tag(ec2[i].terminate_after)
            IN  /\ parsed_date.expiry_date # None /\ parsed_date.warning_date # None
                /\ parsed_date.warning_date >= parsed_date.expiry_date
                /\ parsed_date.warning_date + TERMINATION_WARNING_DAYS <= clock

\* A terminated resource carries a warning that is at least 3 days old, and
\* its expiry date has passed.
C27_TerminatedOnlyAfterLeadTime ==
    \A i \in Ids :
        Gone(ec2[i]) =>
            LET parsed_date == parse_date_tag(ec2[i].terminate_after)
            IN  /\ parsed_date.expiry_date # None /\ parsed_date.warning_date # None
                /\ parsed_date.expiry_date <= clock
                /\ parsed_date.warning_date + TERMINATION_WARNING_DAYS <= clock

====
